---- MODULE Spec2Model ----
(***************************************************************************)
(* Bicycle-network route optimisation (andreaalonsod/Discreta).            *)
(*                                                                         *)
(*   SpecRuta  one call of SistemaOptimizacionCiclovias._dijkstra_ciclista *)
(*             (helper_functions.py), the heap loop and the backward walk  *)
(*             of _reconstruir_ruta, one action per loop iteration.        *)
(*   SpecLote  SistemaOptimizacionCiclovias.ejecutar_optimizacion_rutas:   *)
(*             the loop over the O-D pairs, each search run by the same    *)
(*             actions as in SpecRuta; and the same loop of                *)
(*             RuteadorCicloviasSPCCM (raptor_routing.py), one action per  *)
(*             O-D pair.                                                   *)
(*   SpecImpedancia  the impedance functions applied to a segment:         *)
(*             _calcular_impedancia_multicriterio (helper_functions.py),   *)
(*             _calcular_impedancia_segmento (raptor_routing.py) and       *)
(*             _calcular_impedancia_ciclista (process_gtfs.py).            *)
(*   SpecRed   RuteadorCicloviasSPCCM._crear_grafo_desde_red, one action   *)
(*             per row of the segment table.                               *)
(*   SpecMetricas  the route metrics of a returned route:                  *)
(*             _calcular_metricas_ruta (helper_functions.py) and           *)
(*             _calcular_metricas_ruteo (raptor_routing.py).               *)
(*   SpecCorredores  the corridor aggregators:                             *)
(*             generar_mapa_corredores_prioritarios (raptor_mapping.py)    *)
(*             and _identificar_corredores_prioritarios (transit_stats.py).*)
(*   SpecComparar  the scenario comparators: comparar_escenarios           *)
(*             (helper_functions.py), comparar_escenarios_ruteo            *)
(*             (raptor_routing.py) and calcular_metricas_articulo          *)
(*             (transit_stats.py).                                         *)
(*                                                                         *)
(* Segment attributes and coefficients are exact rationals (numerator and  *)
(* denominator in lowest terms); floating-point rounding is not modelled.  *)
(*                                                                         *)
(* Edge weights are naturals; float('inf') is the value Inf with a         *)
(* saturating sum.  Node identifiers are naturals, compared as Python      *)
(* compares the (distance, node) tuples of the heap.                       *)
(***************************************************************************)
EXTENDS Integers, Sequences, FiniteSets, TLC

VARIABLES
    grafo_ciclista,   \* self.grafo_ciclista: directed edge <<u, v>> -> attributes
    origen,           \* argument origen of _dijkstra_ciclista
    destino,          \* argument destino of _dijkstra_ciclista
    distancias,       \* dict distancias
    predecesores,     \* dict predecesores
    cola_prioridad,   \* the heap, a set of <<distance, node>> tuples
    encolados,        \* the tuples given to heappush, in the order of the calls
    expandidos,       \* the nodes whose neighbours the for loop visited, in order
    ruta,             \* list ruta of _reconstruir_ruta, in append order
    actual,           \* variable actual of _reconstruir_ruta
    retorno,          \* the returned (ruta, cost) tuple
    pc,               \* position of the control flow
    nodos_snapped,    \* self.nodos_snapped: point id -> node id
    pares_od,         \* argument pares_od of ejecutar_optimizacion_rutas
    indice,           \* position of the for loop in pares_od
    resultados,       \* local list resultados
    resultados_optimizacion,  \* self.resultados_optimizacion
    consola,          \* what the batch printed, one record per print
    enlace,           \* a row of the segment table (pd.Series): key -> value
    config,           \* ConfiguracionOptimizacion of helper_functions.py
    config_ruteo,     \* ConfiguracionRuteoCiclovias of raptor_routing.py
    impedancia_multicriterio,  \* result of _calcular_impedancia_multicriterio
    impedancia_segmento,       \* result of _calcular_impedancia_segmento
    seguridad_multicriterio,   \* factor_seguridad of _calcular_impedancia_multicriterio
    impedancia_ciclista,       \* result of _calcular_impedancia_ciclista (process_gtfs.py)
    seguridad_ciclista,        \* factor_seguridad of _calcular_impedancia_ciclista
    red_ciclovias,    \* the segment table given to _crear_grafo_desde_red
    fila,             \* position of iterrows() in red_ciclovias
    grafo,            \* the nx.DiGraph that _crear_grafo_desde_red builds
    pc_red,           \* position of _crear_grafo_desde_red
    resultados_ruteo, \* self.resultados_ruteo of RuteadorCicloviasSPCCM
    pc_ruteo,         \* position of RuteadorCicloviasSPCCM.ejecutar_optimizacion_rutas
    ruta_metricas,    \* argument ruta of _calcular_metricas_ruta
    metricas,         \* the dict that _calcular_metricas_ruta returns
    pc_metricas,      \* which _calcular_metricas_ruta runs, and whether it returned
    lote_optimizado,  \* the optimised results given to a comparator
    escenario_base,   \* argument escenario_base of a comparator
    reporte_optimizacion,  \* outcome of comparar_escenarios (helper_functions.py)
    reporte_ruteo,         \* outcome of comparar_escenarios_ruteo (raptor_routing.py)
    metricas_globales,     \* outcome of calcular_metricas_articulo (transit_stats.py)
    gdf_rutas,        \* the routes given to the corridor aggregators
    corredores_mapa,  \* outcome of generar_mapa_corredores_prioritarios
    corredores_prioritarios, \* outcome of _identificar_corredores_prioritarios
    par_od,           \* arguments origen and destino of _calcular_ruta_optima_spccm
    rutas_candidatas, \* local list rutas_candidatas
    rutas_evaluadas,  \* local list rutas_evaluadas
    resultado_spccm,  \* what _calcular_ruta_optima_spccm returns
    pc_spccm          \* position of _calcular_ruta_optima_spccm

varsRuta == <<grafo_ciclista, origen, destino, distancias, predecesores,
              cola_prioridad, encolados, expandidos, ruta, actual, retorno, pc>>

varsRuta_sin_pc == <<grafo_ciclista, origen, destino, distancias, predecesores,
                     cola_prioridad, encolados, expandidos, ruta, actual, retorno>>

varsLote == <<nodos_snapped, pares_od, indice, resultados,
              resultados_optimizacion, consola>>

varsImp == <<enlace, config, impedancia_multicriterio, impedancia_segmento,
             seguridad_multicriterio, impedancia_ciclista, seguridad_ciclista>>

varsRed == <<red_ciclovias, fila, grafo, pc_red>>

varsRuteo == <<resultados_ruteo, pc_ruteo>>

varsMetricas == <<ruta_metricas, metricas, pc_metricas>>

varsComparar == <<lote_optimizado, escenario_base, reporte_optimizacion,
                  reporte_ruteo, metricas_globales>>

varsCorredores == <<gdf_rutas, corredores_mapa, corredores_prioritarios>>

varsSpccm == <<par_od, rutas_candidatas, rutas_evaluadas, resultado_spccm, pc_spccm>>

\* the state of the evaluation stage (metrics, comparison, corridors) and of
\* one call of _calcular_ruta_optima_spccm
varsAnalisis == <<varsMetricas, varsComparar, varsCorredores, varsSpccm>>

\* config_ruteo is read by the impedance of a segment and by the builder
varsPuras == <<varsImp, varsRed, config_ruteo, varsRuteo, varsAnalisis>>

vars == <<varsRuta, varsLote, varsPuras>>

----------------------------------------------------------------------------
(* Bounds of the model. *)

\* nodes of the graphs are 0..MaxNodo
MaxNodo == 2
\* a graph has at most MaxAristas directed edges
MaxAristas == 3

\* a batch has at most MaxPares O-D pairs
MaxPares == 2
\* a segment table has at most MaxEnlaces rows
MaxEnlaces == 2
\* a route given to a metrics function has at most MaxSaltos hops
MaxSaltos == 2
\* the corridor aggregators are given at most MaxRutas routes
MaxRutas == 2
\* a batch given to a comparator has at most MaxLote results
MaxLote == 2
\* the table of one call of _calcular_ruta_optima_spccm has at most MaxFilas rows
MaxFilas == 4

\* sample edge weights
Pesos == {0, 1, 2}

\* float('inf')
Inf == 1000000
\* Python's None
Ninguno == -1

NodosRed == 0..MaxNodo
\* identifiers a caller may pass: the nodes, and one that is in no graph
Identificadores == 0..(MaxNodo + 1)

ParesNodos == {p \in NodosRed \X NodosRed : p[1] /= p[2]}

----------------------------------------------------------------------------
(* Exact rational arithmetic for the float expressions. *)

RECURSIVE MCD(_, _)
MCD(a, b) == IF b = 0 THEN a ELSE MCD(b, a % b)

Abs(x) == IF x < 0 THEN -x ELSE x

\* the rational n/d (d /= 0) in lowest terms with a positive denominator
Rac(n, d) ==
    LET m == MCD(Abs(n), Abs(d))
        sg == IF d < 0 THEN -1 ELSE 1
    IN [n |-> sg * (n \div m), d |-> sg * (d \div m)]

Ent(k) == [n |-> k, d |-> 1]
RSuma(x, y) == Rac(x.n * y.d + y.n * x.d, x.d * y.d)
RResta(x, y) == Rac(x.n * y.d - y.n * x.d, x.d * y.d)
RMul(x, y) == Rac(x.n * y.n, x.d * y.d)
RDiv(x, y) == Rac(x.n * y.d, x.d * y.n)
RAbs(x) == [n |-> Abs(x.n), d |-> x.d]
\* max(0, x)
RMax0(x) == IF x.n < 0 THEN Ent(0) ELSE x
RPositivo(x) == x.n > 0

----------------------------------------------------------------------------
(* A row of the segment table. *)

\* pd.Series.get(clave, defecto)
SerieGet(e, clave, defecto) == IF clave \in DOMAIN e THEN e[clave] ELSE defecto

----------------------------------------------------------------------------
(* Impedance of the network loader (helper_functions.py), variant 1. *)

\* (mutation) the lookup with the factor of code 4 as its default
FactorSeguridadDefectoAlto(tipo_infra) ==
    CASE tipo_infra = 1 -> Rac(1, 10)
      [] tipo_infra = 2 -> Rac(3, 10)
      [] tipo_infra = 3 -> Rac(6, 10)
      [] OTHER -> Rac(9, 10)

\* _obtener_factor_seguridad: factores.get(tipo_infra, 0.6)
ObtenerFactorSeguridad(tipo_infra) ==
    CASE tipo_infra = 1 -> Rac(1, 10)
      [] tipo_infra = 2 -> Rac(3, 10)
      [] tipo_infra = 3 -> Rac(6, 10)
      [] tipo_infra = 4 -> Rac(9, 10)
      [] OTHER -> Rac(6, 10)

\* (mutation) the speed differential without max(0, .)
FactorVelocidadSinMax(cfg, e) ==
    RMul(cfg.coeficiente_velocidad,
         Ent(SerieGet(e, "velocidad_vehicular", 0) - 30))

\* line 81
FactorVelocidad(cfg, e) ==
    RMul(cfg.coeficiente_velocidad,
         RMax0(Ent(SerieGet(e, "velocidad_vehicular", 0) - 30)))

\* lines 74-75
TiempoBaseMulticriterio(cfg, e) ==
    LET distancia_km == RDiv(Ent(e["longitud"]), Ent(1000))
    IN RMul(RDiv(distancia_km, cfg.velocidad_promedio_bicicleta), Ent(60))

\* lines 78-83
FactoresTotales(cfg, e) ==
    LET factor_seguridad ==
            ObtenerFactorSeguridad(SerieGet(e, "tipo_infraestructura", 3))
        factor_pendiente ==
            RMul(cfg.coeficiente_pendiente, RAbs(Ent(SerieGet(e, "pendiente", 0))))
        factor_trafico ==
            RMul(cfg.coeficiente_trafico, Ent(SerieGet(e, "volumen_vehicular", 0)))
        factor_velocidad == FactorVelocidad(cfg, e)
    IN RSuma(RSuma(RSuma(factor_seguridad, factor_pendiente), factor_trafico),
             factor_velocidad)

\* _calcular_impedancia_multicriterio
CalcularImpedanciaMulticriterio(cfg, e) ==
    RMul(TiempoBaseMulticriterio(cfg, e), RSuma(Ent(1), FactoresTotales(cfg, e)))

----------------------------------------------------------------------------
(* Impedance of the integrated system (process_gtfs.py). *)

\* SistemaMovilidadIntegrada._obtener_factor_seguridad: factores.get(tipo_infra, 0.6)
ObtenerFactorSeguridadCiclista(tipo_infra) ==
    CASE tipo_infra = 1 -> Rac(1, 10)
      [] tipo_infra = 2 -> Rac(3, 10)
      [] tipo_infra = 3 -> Rac(6, 10)
      [] tipo_infra = 4 -> Rac(9, 10)
      [] OTHER -> Rac(6, 10)

\* _calcular_impedancia_ciclista
CalcularImpedanciaCiclista(cfg, e) ==
    LET distancia_km == RDiv(Ent(e["longitud"]), Ent(1000))
        tiempo_base == RMul(RDiv(distancia_km, cfg.velocidad_promedio_bicicleta), Ent(60))
        factor_seg ==
            ObtenerFactorSeguridadCiclista(SerieGet(e, "tipo_infraestructura", 3))
        factor_pendiente ==
            RMul(cfg.coeficiente_pendiente, RAbs(Ent(SerieGet(e, "pendiente", 0))))
    IN RMul(tiempo_base, RSuma(RSuma(Ent(1), factor_seg), factor_pendiente))

----------------------------------------------------------------------------
(* Impedance of the route search (raptor_routing.py), variant 2. *)

\* lines 253-261
AjusteInfraestructura(tipo_infra) ==
    CASE tipo_infra = 1 -> Rac(-3, 10)
      [] tipo_infra = 2 -> Rac(-1, 10)
      [] tipo_infra = 3 -> Rac(3, 10)
      [] OTHER -> Rac(6, 10)

\* lines 250-271
FactoresAjuste(e) ==
    LET tipo_infra == SerieGet(e, "tipo_infraestructura", 3)
        pendiente == SerieGet(e, "pendiente", 0)
        volumen == SerieGet(e, "volumen_vehicular", 0)
        velocidad == RMax0(Ent(SerieGet(e, "velocidad_vehicular", 30) - 30))
    IN RSuma(RSuma(RSuma(AjusteInfraestructura(tipo_infra),
                         RMul(Rac(5, 100), RAbs(Ent(pendiente)))),
                   RMul(Rac(1, 10000), Ent(volumen))),
             RMul(Rac(1, 100), velocidad))

\* lines 246-247
TiempoBaseSegmento(cfgr, e) ==
    LET distancia_km == RDiv(Ent(e["longitud"]), Ent(1000))
    IN RMul(RDiv(distancia_km, cfgr.velocidad_bicicleta), Ent(60))

\* (mutation) the adjustment added to the base time instead of scaling it
ImpedanciaAditiva(tiempo_base, factores_ajuste) ==
    RSuma(tiempo_base, RSuma(Ent(1), factores_ajuste))

\* (mutation) the base time scaled by the adjustment alone, without the 1
ImpedanciaSinUnidad(tiempo_base, factores_ajuste) ==
    RMul(tiempo_base, factores_ajuste)

\* line 273
ImpedanciaAjustada(tiempo_base, factores_ajuste) ==
    RMul(tiempo_base, RSuma(Ent(1), factores_ajuste))

\* _calcular_impedancia_segmento
CalcularImpedanciaSegmento(cfgr, e) ==
    ImpedanciaAjustada(TiempoBaseSegmento(cfgr, e), FactoresAjuste(e))

----------------------------------------------------------------------------
(* Edge attributes of the route-search graph (raptor_routing.py). *)

\* _calcular_peso_seguridad
CalcularPesoSeguridad(e) ==
    LET tipo_infra == SerieGet(e, "tipo_infraestructura", 3)
        factor_base == CASE tipo_infra = 1 -> Rac(1, 1)
                         [] tipo_infra = 2 -> Rac(3, 2)
                         [] tipo_infra = 3 -> Rac(5, 2)
                         [] tipo_infra = 4 -> Rac(4, 1)
                         [] OTHER -> Rac(5, 2)
        factor_trafico ==
            RSuma(Ent(1), RMul(RDiv(Ent(SerieGet(e, "volumen_vehicular", 0)), Ent(1000)),
                               Rac(1, 10)))
        factor_velocidad ==
            RSuma(Ent(1), RDiv(RMax0(Ent(SerieGet(e, "velocidad_vehicular", 30) - 30)),
                               Ent(50)))
    IN RMul(RMul(factor_base, factor_trafico), factor_velocidad)

\* _calcular_peso_comodidad
CalcularPesoComodidad(e) ==
    LET factor_pendiente ==
            RSuma(Ent(1), RMul(RAbs(Ent(SerieGet(e, "pendiente", 0))), Rac(1, 10)))
        factor_superficie == Ent(1)
    IN RMul(factor_pendiente, factor_superficie)

\* the keyword arguments of grafo.add_edge, lines 153-162
AtributosEnlace(cfgr, e) ==
    LET peso_distancia == RDiv(Ent(e["longitud"]), Ent(1000))
    IN [distancia |-> peso_distancia,
        seguridad |-> CalcularPesoSeguridad(e),
        tiempo |-> RMul(RDiv(peso_distancia, cfgr.velocidad_bicicleta), Ent(60)),
        comodidad |-> CalcularPesoComodidad(e)]

\* nx.DiGraph.add_edge(a, b, **attrs): the edge a -> b alone, its attributes
\* replaced when the edge is already there
AddEdge(g, a, b, attrs) ==
    [par \in DOMAIN g \cup {<<a, b>>} |-> IF par = <<a, b>> THEN attrs ELSE g[par]]

----------------------------------------------------------------------------
(* The graph: networkx.DiGraph as used by the search. *)

\* grafo.nodes
Nodos(g) == {e[1] : e \in DOMAIN g} \cup {e[2] : e \in DOMAIN g}

\* grafo[n].items(): the successors of n
Vecinos(g, n) == {v \in Nodos(g) : <<n, v>> \in DOMAIN g}

\* grafo.has_edge(a, b)
HasEdge(g, a, b) == <<a, b>> \in DOMAIN g

\* atributos.get('weight', float('inf'))
Peso(g, a, b) == g[<<a, b>>].weight

\* float addition with infinity
Suma(a, b) == IF a >= Inf \/ b >= Inf THEN Inf ELSE a + b

----------------------------------------------------------------------------
(* _dijkstra_ciclista *)

\* (mutation) line 156 left out: the origin starts at infinity like the rest
DistanciasSinOrigen(g, o) == [n \in Nodos(g) \cup {o} |-> Inf]

\* (mutation) the dict of the previous search is kept and only the origin is
\* set again
DistanciasHeredadas(g, o) ==
    IF distancias = << >> THEN [n \in Nodos(g) \cup {o} |-> IF n = o THEN 0 ELSE Inf]
    ELSE [n \in Nodos(g) \cup {o} |->
            IF n = o THEN 0 ELSE IF n \in DOMAIN distancias THEN distancias[n] ELSE Inf]

\* distancias after lines 154 and 156
DistanciasIniciales(g, o) ==
    [n \in Nodos(g) \cup {o} |-> IF n = o THEN 0 ELSE Inf]

\* predecesores after line 155
PredecesoresIniciales(g) == [n \in Nodos(g) |-> Ninguno]

\* dict.get(k, default)
Get(d, k, default) == IF k \in DOMAIN d THEN d[k] ELSE default

\* tuple order of the heap entries: by distance, then by node
MenorTupla(a, b) == a[1] < b[1] \/ (a[1] = b[1] /\ a[2] < b[2])

\* heapq.heappop: the least tuple of the heap
HeapPop(cola) == CHOOSE e \in cola : \A f \in cola \ {e} : MenorTupla(e, f)

\* (mutation) the weight of the edge alone, the distance so far forgotten
NuevaDistanciaSinAcumular(distancia_actual, peso) == peso

\* nueva_distancia = distancia_actual + peso
NuevaDistancia(distancia_actual, peso) == Suma(distancia_actual, peso)

RECURSIVE Ordenes(_)
\* the sequences that list the elements of S once each
Ordenes(S) ==
    IF S = {} THEN {<<>>}
    ELSE UNION {{<<x>> \o resto : resto \in Ordenes(S \ {x})} : x \in S}

\* (mutation) nueva_distancia <= distancias[vecino]
MejoradosNoEstricto(g, dist, n, d) ==
    {v \in Nodos(g) : /\ <<n, v>> \in DOMAIN g
                      /\ Suma(d, g[<<n, v>>].weight) <= dist[v]}

\* the neighbours the loop body relaxes: nueva_distancia < distancias[vecino]
Mejorados(g, dist, n, d) ==
    {v \in Vecinos(g, n) : NuevaDistancia(d, Peso(g, n, v)) < dist[v]}

\* while cola_prioridad is false: fall to line 179
ColaVacia ==
    /\ pc = "bucle"
    /\ cola_prioridad = {}
    /\ pc' = "reconstruir"
    /\ ruta' = <<>>
    /\ actual' = destino
    /\ UNCHANGED <<grafo_ciclista, origen, destino, distancias, predecesores,
                   cola_prioridad, encolados, expandidos, retorno,
                   varsLote, varsPuras>>

\* pop of the destination: break
ExtraerDestino ==
    /\ pc = "bucle"
    /\ cola_prioridad /= {}
    /\ LET e == HeapPop(cola_prioridad) IN
        /\ e[2] = destino
        /\ cola_prioridad' = cola_prioridad \ {e}
    /\ pc' = "reconstruir"
    /\ ruta' = <<>>
    /\ actual' = destino
    /\ UNCHANGED <<grafo_ciclista, origen, destino, distancias, predecesores,
                   encolados, expandidos, retorno,
                   varsLote, varsPuras>>

\* pop of a stale entry: continue
ExtraerObsoleto ==
    /\ pc = "bucle"
    /\ cola_prioridad /= {}
    /\ LET e == HeapPop(cola_prioridad) IN
        /\ e[2] /= destino
        /\ e[1] > distancias[e[2]]
        /\ cola_prioridad' = cola_prioridad \ {e}
    /\ UNCHANGED <<grafo_ciclista, origen, destino, distancias, predecesores,
                   encolados, expandidos, ruta, actual, retorno, pc,
                   varsLote, varsPuras>>

\* pop of a node that is not in the graph: self.grafo_ciclista[nodo_actual]
\* raises KeyError
ExtraerKeyError ==
    /\ pc = "bucle"
    /\ cola_prioridad /= {}
    /\ LET e == HeapPop(cola_prioridad) IN
        /\ e[2] /= destino
        /\ ~(e[1] > distancias[e[2]])
        /\ e[2] \notin Nodos(grafo_ciclista)
        /\ cola_prioridad' = cola_prioridad \ {e}
    /\ pc' = "error"
    /\ UNCHANGED <<grafo_ciclista, origen, destino, distancias, predecesores,
                   encolados, expandidos, ruta, actual, retorno,
                   varsLote, varsPuras>>

\* pop of a node to expand: the for loop over its neighbours.  The loop
\* meets the neighbours in the order in which the edges were added to the
\* graph, which the graph as a function of its edges does not hold: every
\* order is the order of some graph with these edges
ExtraerExpandir ==
    /\ pc = "bucle"
    /\ cola_prioridad /= {}
    /\ LET e == HeapPop(cola_prioridad)
           distancia_actual == e[1]
           nodo_actual == e[2]
           m == Mejorados(grafo_ciclista, distancias, nodo_actual, distancia_actual)
           nueva(v) == NuevaDistancia(distancia_actual,
                                      Peso(grafo_ciclista, nodo_actual, v))
       IN
        /\ nodo_actual /= destino
        /\ ~(distancia_actual > distancias[nodo_actual])
        /\ nodo_actual \in Nodos(grafo_ciclista)
        /\ distancias' = [v \in DOMAIN distancias |->
                             IF v \in m THEN nueva(v) ELSE distancias[v]]
        /\ predecesores' = [v \in DOMAIN predecesores |->
                             IF v \in m THEN nodo_actual ELSE predecesores[v]]
        /\ cola_prioridad' = (cola_prioridad \ {e}) \cup {<<nueva(v), v>> : v \in m}
        /\ \E orden \in Ordenes({<<nueva(v), v>> : v \in m}) :
              encolados' = encolados \o orden
        /\ expandidos' = Append(expandidos, nodo_actual)
    /\ UNCHANGED <<grafo_ciclista, origen, destino, ruta, actual, retorno, pc,
                   varsLote, varsPuras>>

----------------------------------------------------------------------------
(* _reconstruir_ruta *)

\* ruta[::-1]
Reverso(s) == [i \in 1..Len(s) |-> s[Len(s) + 1 - i]]

\* one iteration of while actual is not None
ReconstruirPaso ==
    /\ pc = "reconstruir"
    /\ actual /= Ninguno
    /\ ruta' = Append(ruta, actual)
    /\ actual' = Get(predecesores, actual, Ninguno)
    /\ UNCHANGED <<grafo_ciclista, origen, destino, distancias, predecesores,
                   cola_prioridad, encolados, expandidos, retorno, pc,
                   varsLote, varsPuras>>

\* actual is None: return ruta[::-1]; line 180 returns it with the distance
Retornar ==
    /\ pc = "reconstruir"
    /\ actual = Ninguno
    /\ retorno' = [ruta |-> Reverso(ruta), costo |-> Get(distancias, destino, Inf)]
    /\ pc' = "retornado"
    /\ UNCHANGED <<grafo_ciclista, origen, destino, distancias, predecesores,
                   cola_prioridad, encolados, expandidos, ruta, actual,
                   varsLote, varsPuras>>

----------------------------------------------------------------------------
(* Values of the variables a specification does not use. *)

\* ConfiguracionOptimizacion(): the defaults of lines 24-28
ConfigDefecto ==
    [coeficiente_seguridad |-> Rac(3, 10),
     coeficiente_pendiente |-> Rac(5, 100),
     coeficiente_trafico |-> Rac(1, 10000),
     coeficiente_velocidad |-> Rac(1, 100),
     velocidad_promedio_bicicleta |-> Ent(15)]

\* ConfiguracionRuteoCiclovias(): the default of line 29
ConfigRuteoDefecto == [velocidad_bicicleta |-> Ent(15)]

\* a result that is not computed yet
SinCalcular == [n |-> 0, d |-> 0]

SinFuncion == [x \in {} |-> 0]

ImpedanciaInactiva ==
    /\ enlace = SinFuncion
    /\ config = ConfigDefecto
    /\ impedancia_multicriterio = SinCalcular
    /\ impedancia_segmento = SinCalcular
    /\ seguridad_multicriterio = SinCalcular
    /\ impedancia_ciclista = SinCalcular
    /\ seguridad_ciclista = SinCalcular

RedInactiva ==
    /\ red_ciclovias = <<>>
    /\ fila = 1
    /\ grafo = SinFuncion
    /\ pc_red = "inactivo"

RuteoInactivo ==
    /\ resultados_ruteo = <<>>
    /\ pc_ruteo = "inactivo"

\* no (ruta, cost) tuple returned yet
SinRetorno == [ruta |-> <<>>, costo |-> Inf]

RutaInactiva ==
    /\ grafo_ciclista = SinFuncion
    /\ origen = Ninguno
    /\ destino = Ninguno
    /\ distancias = SinFuncion
    /\ predecesores = SinFuncion
    /\ cola_prioridad = {}
    /\ encolados = <<>>
    /\ expandidos = <<>>
    /\ ruta = <<>>
    /\ actual = Ninguno
    /\ retorno = SinRetorno
    /\ pc = "inactivo"

LoteInactivo ==
    /\ nodos_snapped = SinFuncion
    /\ pares_od = <<>>
    /\ indice = 1
    /\ resultados = <<>>
    /\ resultados_optimizacion = <<>>
    /\ consola = <<>>

\* no dict returned yet by a metrics function, a comparator or an aggregator
SinResultado == [estado |-> "pendiente"]

MetricasInactivas ==
    /\ ruta_metricas = <<>>
    /\ metricas = SinResultado
    /\ pc_metricas = "inactivo"

CompararInactivo ==
    /\ lote_optimizado = <<>>
    /\ escenario_base = <<>>
    /\ reporte_optimizacion = SinResultado
    /\ reporte_ruteo = SinResultado
    /\ metricas_globales = SinResultado

CorredoresInactivos ==
    /\ gdf_rutas = SinFuncion
    /\ corredores_mapa = SinResultado
    /\ corredores_prioritarios = SinResultado

SpccmInactivo ==
    /\ par_od = <<>>
    /\ rutas_candidatas = <<>>
    /\ rutas_evaluadas = <<>>
    /\ resultado_spccm = SinResultado
    /\ pc_spccm = "inactivo"

AnalisisInactivo ==
    MetricasInactivas /\ CompararInactivo /\ CorredoresInactivos /\ SpccmInactivo

----------------------------------------------------------------------------
(* SpecRuta: one search on every graph of the bounds. *)

Atributos == [weight : Pesos, length : {1000}]

\* the scenario of the specification: A = 0, B = 1, C = 2
GrafoEjemplo ==
    (<<0, 1>> :> [weight |-> 5,  length |-> 1000]) @@
    (<<1, 2>> :> [weight |-> 3,  length |-> 1000]) @@
    (<<0, 2>> :> [weight |-> 10, length |-> 1000])

\* every graph of at most MaxAristas edges over the sample weights, and the
\* graph of the scenario
Grafos ==
    UNION {[S -> Atributos] :
             S \in {T \in SUBSET ParesNodos : Cardinality(T) <= MaxAristas}}
      \cup {GrafoEjemplo}

\* the state after lines 154-158
InitRuta ==
    /\ grafo_ciclista \in Grafos
    /\ origen \in Identificadores
    /\ destino \in Identificadores
    /\ distancias = DistanciasIniciales(grafo_ciclista, origen)
    /\ predecesores = PredecesoresIniciales(grafo_ciclista)
    /\ cola_prioridad = {<<0, origen>>}
    /\ encolados = <<<<0, origen>>>>
    /\ expandidos = <<>>
    /\ ruta = <<>>
    /\ actual = Ninguno
    /\ retorno = SinRetorno
    /\ pc = "bucle"
    /\ LoteInactivo
    /\ ImpedanciaInactiva
    /\ RedInactiva
    /\ RuteoInactivo
    /\ config_ruteo = ConfigRuteoDefecto
    /\ AnalisisInactivo

NextRuta ==
    \/ ColaVacia
    \/ ExtraerDestino
    \/ ExtraerObsoleto
    \/ ExtraerKeyError
    \/ ExtraerExpandir
    \/ ReconstruirPaso
    \/ Retornar

SpecRuta == InitRuta /\ [][NextRuta]_vars

\* the interpreter goes on executing the call as long as it has a next step
SpecRutaEjecutada == SpecRuta /\ WF_vars(NextRuta)

----------------------------------------------------------------------------
(* _calcular_metricas_ruta (helper_functions.py) *)

\* A dict is a record that carries the set of its keys in the field claves;
\* a field whose key is not in claves is not in the dict.
MetricasVacias ==
    [claves |-> {}, distancia_total |-> 0, num_segmentos |-> 0, segmentos |-> <<>>]

RECURSIVE SegmentosDesde(_, _, _)
\* the list segmentos after the iterations i, i+1, ... of the for loop
SegmentosDesde(g, r, i) ==
    IF i >= Len(r) THEN <<>>
    ELSE IF HasEdge(g, r[i], r[i + 1])
         THEN <<[nodo_inicio |-> r[i], nodo_fin |-> r[i + 1],
                 impedancia |-> g[<<r[i], r[i + 1]>>].weight]>>
              \o SegmentosDesde(g, r, i + 1)
         ELSE SegmentosDesde(g, r, i + 1)

RECURSIVE DistanciaDesde(_, _, _)
\* distancia_total after the iterations i, i+1, ... of the for loop
DistanciaDesde(g, r, i) ==
    IF i >= Len(r) THEN 0
    ELSE (IF HasEdge(g, r[i], r[i + 1]) THEN g[<<r[i], r[i + 1]>>].length ELSE 0)
         + DistanciaDesde(g, r, i + 1)

CalcularMetricasRuta(g, r) ==
    IF Len(r) < 2 THEN MetricasVacias
    ELSE [claves |-> {"distancia_total", "num_segmentos", "segmentos"},
          distancia_total |-> DistanciaDesde(g, r, 1),
          num_segmentos |-> Len(SegmentosDesde(g, r, 1)),
          segmentos |-> SegmentosDesde(g, r, 1)]

----------------------------------------------------------------------------
(* ejecutar_optimizacion_rutas (helper_functions.py) *)

\* Python's "not x" for a node id or None
EsFalso(x) == x = Ninguno \/ x = 0

\* the pair the for loop is at
ParActual == pares_od[indice]
\* self.nodos_snapped.get(origen), self.nodos_snapped.get(destino)
NodoOrigen == Get(nodos_snapped, ParActual[1], Ninguno)
NodoDestino == Get(nodos_snapped, ParActual[2], Ninguno)

\* lines 117-122: a node is missing, print the warning and continue
OmitirPar ==
    /\ pc = "lote"
    /\ indice <= Len(pares_od)
    /\ EsFalso(NodoOrigen) \/ EsFalso(NodoDestino)
    /\ consola' = Append(consola, [tipo |-> "advertencia", par |-> ParActual])
    /\ indice' = indice + 1
    /\ UNCHANGED <<varsRuta, nodos_snapped, pares_od, resultados,
                   resultados_optimizacion, varsPuras>>

\* lines 117-126 and 154-158: both nodes found, enter _dijkstra_ciclista
IniciarBusqueda ==
    /\ pc = "lote"
    /\ indice <= Len(pares_od)
    /\ ~(EsFalso(NodoOrigen) \/ EsFalso(NodoDestino))
    /\ origen' = NodoOrigen
    /\ destino' = NodoDestino
    /\ distancias' = DistanciasIniciales(grafo_ciclista, NodoOrigen)
    /\ predecesores' = PredecesoresIniciales(grafo_ciclista)
    /\ cola_prioridad' = {<<0, NodoOrigen>>}
    /\ encolados' = <<<<0, NodoOrigen>>>>
    /\ expandidos' = <<>>
    /\ pc' = "bucle"
    /\ UNCHANGED <<grafo_ciclista, ruta, actual, retorno, varsLote, varsPuras>>

\* lines 130-141: the search returned; metrics, append, print
TerminarPar ==
    /\ pc = "retornado"
    /\ indice <= Len(pares_od)
    /\ resultados' = Append(resultados,
          [origen |-> ParActual[1],
           destino |-> ParActual[2],
           ruta_optima |-> retorno.ruta,
           impedancia_total |-> retorno.costo,
           metricas |-> CalcularMetricasRuta(grafo_ciclista, retorno.ruta)])
    /\ consola' = Append(consola, [tipo |-> "ruta", par |-> ParActual])
    /\ indice' = indice + 1
    /\ pc' = "lote"
    /\ UNCHANGED <<grafo_ciclista, origen, destino, distancias, predecesores,
                   cola_prioridad, encolados, expandidos, ruta, actual, retorno,
                   nodos_snapped, pares_od, resultados_optimizacion, varsPuras>>

\* (mutation) no except clause: the exception leaves the for loop
ErrorSinCapturar ==
    /\ pc = "error"
    /\ indice <= Len(pares_od)
    /\ pc' = "abortado"
    /\ UNCHANGED <<varsRuta_sin_pc, varsLote, varsPuras>>

\* lines 143-145: the exception of the search is caught, printed, continue
CapturarError ==
    /\ pc = "error"
    /\ indice <= Len(pares_od)
    /\ consola' = Append(consola, [tipo |-> "error", par |-> ParActual])
    /\ indice' = indice + 1
    /\ pc' = "lote"
    /\ UNCHANGED <<grafo_ciclista, origen, destino, distancias, predecesores,
                   cola_prioridad, encolados, expandidos, ruta, actual, retorno,
                   nodos_snapped, pares_od, resultados, resultados_optimizacion, varsPuras>>

\* lines 147-148: the loop is over
FinalizarLote ==
    /\ pc = "lote"
    /\ indice > Len(pares_od)
    /\ resultados_optimizacion' = resultados
    /\ pc' = "finLote"
    /\ UNCHANGED <<varsRuta_sin_pc, nodos_snapped, pares_od, indice, resultados,
                   consola, varsPuras>>

----------------------------------------------------------------------------
(* The batches of SistemaOptimizacionCiclovias: every snapping map and every
   sequence of pairs of point identifiers. *)

\* external point identifiers (TAZs, stops)
Puntos == {"TAZ_1", "TAZ_2"}

\* a graph on which the search pushes node 0 twice (2 by the direct edge, then
\* 1 through node 2)
GrafoDesvio ==
    (<<1, 0>> :> [weight |-> 2, length |-> 1000]) @@
    (<<1, 2>> :> [weight |-> 0, length |-> 1000]) @@
    (<<2, 0>> :> [weight |-> 1, length |-> 1000])

\* the graphs of a batch: at most two edges, of weight 1, and GrafoDesvio
GrafosLote ==
    {g \in Grafos : Cardinality(DOMAIN g) <= 2 /\ \A e \in DOMAIN g : g[e].weight = 1}
      \cup {GrafoDesvio}

\* dict(zip(id, node_id)): some points mapped to a node identifier
MapasSnapped == UNION {[S -> Identificadores] : S \in SUBSET Puntos}

SecuenciasPares == UNION {[1..n -> Puntos \X Puntos] : n \in 0..MaxPares}

\* the state at line 114, before the first pair
InitLoteOptimizacion ==
    /\ grafo_ciclista \in GrafosLote
    /\ nodos_snapped \in MapasSnapped
    /\ pares_od \in SecuenciasPares
    /\ indice = 1
    /\ resultados = <<>>
    /\ resultados_optimizacion = <<>>
    /\ consola = <<>>
    /\ origen = Ninguno
    /\ destino = Ninguno
    /\ distancias = SinFuncion
    /\ predecesores = SinFuncion
    /\ cola_prioridad = {}
    /\ encolados = <<>>
    /\ expandidos = <<>>
    /\ ruta = <<>>
    /\ actual = Ninguno
    /\ retorno = SinRetorno
    /\ pc = "lote"
    /\ ImpedanciaInactiva
    /\ RedInactiva
    /\ RuteoInactivo
    /\ config_ruteo = ConfigRuteoDefecto
    /\ AnalisisInactivo

NextLoteOptimizacion ==
    \/ OmitirPar
    \/ IniciarBusqueda
    \/ NextRuta
    \/ TerminarPar
    \/ CapturarError
    \/ FinalizarLote

----------------------------------------------------------------------------
(* SpecImpedancia: the impedance functions on every sample segment. *)

\* a column that may be missing from the table: no key, or one of the values
Opcional(clave, valores) == {SinFuncion} \cup {clave :> x : x \in valores}

\* sample rows: lengths in metres, infrastructure codes (0 and 7 are no codes),
\* slopes in percent, vehicles per period, vehicle speeds in km/h
EnlacesMuestra ==
    {("longitud" :> l) @@ t @@ p @@ v @@ s :
        l \in {0, 500, 1000},
        t \in Opcional("tipo_infraestructura", {0, 1, 2, 3, 4, 7}),
        p \in Opcional("pendiente", {-4, 0, 3}),
        v \in Opcional("volumen_vehicular", {0, 2000}),
        s \in Opcional("velocidad_vehicular", {20, 30, 50})}

\* the default configuration and one with other coefficients
ConfigsMuestra ==
    {ConfigDefecto,
     [coeficiente_seguridad |-> Rac(1, 2),
      coeficiente_pendiente |-> Rac(1, 10),
      coeficiente_trafico |-> Rac(1, 1000),
      coeficiente_velocidad |-> Rac(1, 50),
      velocidad_promedio_bicicleta |-> Ent(20)]}

ConfigsRuteoMuestra == {ConfigRuteoDefecto, [velocidad_bicicleta |-> Ent(12)]}

InitImpedancia ==
    /\ enlace \in EnlacesMuestra
    /\ config \in ConfigsMuestra
    /\ config_ruteo \in ConfigsRuteoMuestra
    /\ impedancia_multicriterio = SinCalcular
    /\ impedancia_segmento = SinCalcular
    /\ seguridad_multicriterio = SinCalcular
    /\ impedancia_ciclista = SinCalcular
    /\ seguridad_ciclista = SinCalcular
    /\ RutaInactiva
    /\ LoteInactivo
    /\ RedInactiva
    /\ RuteoInactivo
    /\ AnalisisInactivo

\* enlaces.apply(self._calcular_impedancia_multicriterio, axis=1) on the row
AplicarImpedanciaMulticriterio ==
    /\ impedancia_multicriterio = SinCalcular
    /\ enlace /= SinFuncion
    /\ impedancia_multicriterio' = CalcularImpedanciaMulticriterio(config, enlace)
    /\ seguridad_multicriterio' =
          ObtenerFactorSeguridad(SerieGet(enlace, "tipo_infraestructura", 3))
    /\ UNCHANGED <<varsAnalisis, varsRuta, varsLote, varsRed, varsRuteo, enlace, config,
                   config_ruteo, impedancia_segmento, impedancia_ciclista,
                   seguridad_ciclista>>

\* self._calcular_impedancia_segmento(enlace) on the row
AplicarImpedanciaSegmento ==
    /\ impedancia_segmento = SinCalcular
    /\ enlace /= SinFuncion
    /\ impedancia_segmento' = CalcularImpedanciaSegmento(config_ruteo, enlace)
    /\ UNCHANGED <<varsAnalisis, varsRuta, varsLote, varsRed, varsRuteo, enlace, config,
                   config_ruteo, impedancia_multicriterio, seguridad_multicriterio,
                   impedancia_ciclista, seguridad_ciclista>>

\* enlaces.apply(self._calcular_impedancia_ciclista, axis=1) on the row, with
\* the coefficients of config
AplicarImpedanciaCiclista ==
    /\ impedancia_ciclista = SinCalcular
    /\ enlace /= SinFuncion
    /\ impedancia_ciclista' = CalcularImpedanciaCiclista(config, enlace)
    /\ seguridad_ciclista' =
          ObtenerFactorSeguridadCiclista(SerieGet(enlace, "tipo_infraestructura", 3))
    /\ UNCHANGED <<varsAnalisis, varsRuta, varsLote, varsRed, varsRuteo, enlace, config,
                   config_ruteo, impedancia_multicriterio, seguridad_multicriterio,
                   impedancia_segmento>>

NextImpedancia ==
    \/ AplicarImpedanciaMulticriterio
    \/ AplicarImpedanciaSegmento
    \/ AplicarImpedanciaCiclista

SpecImpedancia == InitImpedancia /\ [][NextImpedancia]_vars

----------------------------------------------------------------------------
(* SpecRed: _crear_grafo_desde_red on every sample segment table. *)

\* a table has at most MaxEnlaces rows
FilasMuestra ==
    {("A" :> par[1]) @@ ("B" :> par[2]) @@ ("longitud" :> l)
       @@ ("tipo_infraestructura" :> t) :
        par \in ParesNodos, l \in {1000, 2000}, t \in {1, 4}}

TablasMuestra == UNION {[1..n -> FilasMuestra] : n \in 0..MaxEnlaces}

\* line 147: grafo = nx.DiGraph()
InitRed ==
    /\ red_ciclovias \in TablasMuestra
    /\ config_ruteo \in ConfigsRuteoMuestra
    /\ fila = 1
    /\ grafo = SinFuncion
    /\ pc_red = "filas"
    /\ RutaInactiva
    /\ LoteInactivo
    /\ ImpedanciaInactiva
    /\ RuteoInactivo
    /\ AnalisisInactivo

\* one iteration of the for loop over iterrows(), lines 149-162
AgregarEnlace ==
    /\ pc_red = "filas"
    /\ fila <= Len(red_ciclovias)
    /\ LET e == red_ciclovias[fila] IN
         grafo' = AddEdge(grafo, e["A"], e["B"], AtributosEnlace(config_ruteo, e))
    /\ fila' = fila + 1
    /\ UNCHANGED <<varsAnalisis, varsRuta, varsLote, varsImp, varsRuteo, config_ruteo,
                   red_ciclovias, pc_red>>

\* line 164: return grafo
RetornarGrafo ==
    /\ pc_red = "filas"
    /\ fila > Len(red_ciclovias)
    /\ pc_red' = "construido"
    /\ UNCHANGED <<varsAnalisis, varsRuta, varsLote, varsImp, varsRuteo, config_ruteo,
                   red_ciclovias, fila, grafo>>

NextRed ==
    \/ AgregarEnlace
    \/ RetornarGrafo

SpecRed == InitRed /\ [][NextRed]_vars

----------------------------------------------------------------------------
(* The route search of RuteadorCicloviasSPCCM (raptor_routing.py). *)

RECURSIVE GrafoDesdeFilas(_, _, _)
\* _crear_grafo_desde_red after the first n rows
GrafoDesdeFilas(cfgr, tabla, n) ==
    IF n = 0 THEN SinFuncion
    ELSE AddEdge(GrafoDesdeFilas(cfgr, tabla, n - 1), tabla[n]["A"], tabla[n]["B"],
                 AtributosEnlace(cfgr, tabla[n]))

CrearGrafoDesdeRed(cfgr, tabla) == GrafoDesdeFilas(cfgr, tabla, Len(tabla))

RMenorIgual(x, y) == x.n * y.d <= y.n * x.d
RMenor(x, y) == x.n * y.d < y.n * x.d

RECURSIVE CaminosSimples(_, _, _, _)
\* the directed paths from u to d that visit no node twice nor one of visitados
CaminosSimples(g, u, d, visitados) ==
    IF u = d THEN {<<u>>}
    ELSE UNION {{<<u>> \o r : r \in CaminosSimples(g, v, d, visitados \cup {v})} :
                  v \in Vecinos(g, u) \ visitados}

RECURSIVE CostoCriterio(_, _, _, _)
\* total of the edge attribute criterio over the hops i, i+1, ... of r
CostoCriterio(g, r, criterio, i) ==
    IF i >= Len(r) THEN Ent(0)
    ELSE RSuma(g[<<r[i], r[i + 1]>>][criterio], CostoCriterio(g, r, criterio, i + 1))

\* nx.shortest_path(grafo, origen, destino, weight=criterio): a path of least
\* total weight; which of several least paths the library returns is not
\* fixed here, so every one of them is a possible result
RutasMinimas(g, o, d, criterio) ==
    LET todas == CaminosSimples(g, o, d, {o})
    IN {r \in todas : \A r2 \in todas :
            RMenorIgual(CostoCriterio(g, r, criterio, 1), CostoCriterio(g, r2, criterio, 1))}

\* None of _encontrar_ruta_por_criterio
SinRuta == <<>>

\* _encontrar_ruta_por_criterio: the possible return values
EncontrarRutaPorCriterio(g, o, d, criterio) ==
    IF o \in Nodos(g) /\ d \in Nodos(g) /\ CaminosSimples(g, o, d, {o}) /= {}
    THEN RutasMinimas(g, o, d, criterio)
    ELSE {SinRuta}

\* line 132
CriteriosImpedancia == <<"distancia", "seguridad", "tiempo", "comodidad">>

RECURSIVE AcumularCandidatas(_, _)
\* lines 134-137 over the routes found for the first n criteria
AcumularCandidatas(rutas, n) ==
    IF n = 0 THEN <<>>
    ELSE LET antes == AcumularCandidatas(rutas, n - 1)
         IN IF rutas[n] /= SinRuta /\ \A k \in 1..Len(antes) : antes[k] /= rutas[n]
            THEN Append(antes, rutas[n])
            ELSE antes

\* _obtener_enlace_entre_nodos: the first row that joins the two nodes in
\* either direction, SinFuncion for None
ObtenerEnlaceEntreNodos(tabla, nodo_inicio, nodo_fin) ==
    LET coinciden == {i \in 1..Len(tabla) :
                        \/ tabla[i]["A"] = nodo_inicio /\ tabla[i]["B"] = nodo_fin
                        \/ tabla[i]["A"] = nodo_fin /\ tabla[i]["B"] = nodo_inicio}
    IN IF coinciden = {} THEN SinFuncion
       ELSE tabla[CHOOSE i \in coinciden : \A j \in coinciden : i <= j]

RECURSIVE ImpedanciaRutaDesde(_, _, _, _)
\* _calcular_impedancia_ruta: the sum over the hops i, i+1, ...
ImpedanciaRutaDesde(cfgr, tabla, r, i) ==
    IF i >= Len(r) THEN Ent(0)
    ELSE LET e == ObtenerEnlaceEntreNodos(tabla, r[i], r[i + 1])
         IN RSuma(IF e /= SinFuncion THEN CalcularImpedanciaSegmento(cfgr, e) ELSE Ent(0),
                  ImpedanciaRutaDesde(cfgr, tabla, r, i + 1))

CalcularImpedanciaRuta(cfgr, tabla, r) == ImpedanciaRutaDesde(cfgr, tabla, r, 1)

RECURSIVE SegmentosRuteoDesde(_, _, _, _)
\* the list segmentos of _calcular_metricas_ruta after the hops i, i+1, ...
SegmentosRuteoDesde(cfgr, tabla, r, i) ==
    IF i >= Len(r) THEN <<>>
    ELSE LET e == ObtenerEnlaceEntreNodos(tabla, r[i], r[i + 1])
         IN (IF e /= SinFuncion
             THEN <<[nodo_inicio |-> r[i],
                     nodo_fin |-> r[i + 1],
                     distancia |-> e["longitud"],
                     tiempo |-> RMul(RDiv(RDiv(Ent(e["longitud"]), Ent(1000)),
                                          cfgr.velocidad_bicicleta), Ent(60)),
                     tipo_infraestructura |-> SerieGet(e, "tipo_infraestructura", 3),
                     pendiente |-> SerieGet(e, "pendiente", 0)]>>
             ELSE <<>>)
            \o SegmentosRuteoDesde(cfgr, tabla, r, i + 1)

RECURSIVE SumaDistancias(_, _)
SumaDistancias(segs, n) ==
    IF n = 0 THEN 0 ELSE SumaDistancias(segs, n - 1) + segs[n].distancia

RECURSIVE SumaTiempos(_, _)
SumaTiempos(segs, n) ==
    IF n = 0 THEN Ent(0) ELSE RSuma(SumaTiempos(segs, n - 1), segs[n].tiempo)

MetricasRuteoVacias ==
    [claves |-> {}, distancia_total |-> 0, tiempo_total |-> Ent(0), num_segmentos |-> 0,
     porcentaje_infra_segura |-> Ent(0), segmentos |-> <<>>]

\* (mutation) the share of the segregated segments alone
PorcentajeSoloSegregada(segs) ==
    LET infra_segura == {k \in 1..Len(segs) : segs[k].tipo_infraestructura = 1}
    IN IF Len(segs) > 0
       THEN RMul(Rac(Cardinality(infra_segura), Len(segs)), Ent(100))
       ELSE Ent(0)

\* lines 310-311: tipos_infraestructura holds one code per recorded segment
PorcentajeInfraSegura(segs) ==
    LET infra_segura == {k \in 1..Len(segs) : segs[k].tipo_infraestructura \in {1, 2}}
    IN IF Len(segs) > 0
       THEN RMul(Rac(Cardinality(infra_segura), Len(segs)), Ent(100))
       ELSE Ent(0)

\* _calcular_metricas_ruta (raptor_routing.py)
CalcularMetricasRuteo(cfgr, tabla, r) ==
    IF Len(r) < 2 THEN MetricasRuteoVacias
    ELSE LET segs == SegmentosRuteoDesde(cfgr, tabla, r, 1)
         IN [claves |-> {"distancia_total", "tiempo_total", "num_segmentos",
                         "porcentaje_infra_segura", "segmentos"},
             distancia_total |-> SumaDistancias(segs, Len(segs)),
             tiempo_total |-> SumaTiempos(segs, Len(segs)),
             num_segmentos |-> Len(segs),
             porcentaje_infra_segura |-> PorcentajeInfraSegura(segs),
             segmentos |-> segs]

\* lines 92-99: the candidates with their impedance and metrics
RutasEvaluadas(cfgr, tabla, candidatas) ==
    [k \in 1..Len(candidatas) |->
        [ruta |-> candidatas[k],
         impedancia_total |-> CalcularImpedanciaRuta(cfgr, tabla, candidatas[k]),
         metricas |-> CalcularMetricasRuteo(cfgr, tabla, candidatas[k])]]

\* min(rutas_evaluadas, key=...): the first of the least
MinimaEvaluada(evaluadas) ==
    evaluadas[CHOOSE k \in 1..Len(evaluadas) :
                /\ \A j \in 1..Len(evaluadas) :
                     RMenorIgual(evaluadas[k].impedancia_total, evaluadas[j].impedancia_total)
                /\ \A j \in 1..(k - 1) :
                     RMenor(evaluadas[k].impedancia_total, evaluadas[j].impedancia_total)]

----------------------------------------------------------------------------
(* ejecutar_optimizacion_rutas (raptor_routing.py).  The timestamp of a
   result is the wall clock and is left out. *)

\* the candidate lists _encontrar_rutas_candidatas can return for a pair
CandidatasPosibles(cfgr, tabla, o, d) ==
    LET g == CrearGrafoDesdeRed(cfgr, tabla)
    IN {AcumularCandidatas(<<r1, r2, r3, r4>>, 4) :
          r1 \in EncontrarRutaPorCriterio(g, o, d, CriteriosImpedancia[1]),
          r2 \in EncontrarRutaPorCriterio(g, o, d, CriteriosImpedancia[2]),
          r3 \in EncontrarRutaPorCriterio(g, o, d, CriteriosImpedancia[3]),
          r4 \in EncontrarRutaPorCriterio(g, o, d, CriteriosImpedancia[4])}

\* lines 64-66 and 86-89: no candidate, _calcular_ruta_optima_spccm returns
\* None and nothing is appended
ParSinCandidatas ==
    /\ pc_ruteo = "lote"
    /\ indice <= Len(pares_od)
    /\ <<>> \in CandidatasPosibles(config_ruteo, red_ciclovias, ParActual[1], ParActual[2])
    /\ indice' = indice + 1
    /\ UNCHANGED <<varsAnalisis, varsRuta, varsImp, varsRed, config_ruteo, nodos_snapped, pares_od,
                   resultados, resultados_optimizacion, consola, varsRuteo>>

\* lines 64-69 and 86-113: the best candidate becomes the result of the pair
ParConCandidatas ==
    /\ pc_ruteo = "lote"
    /\ indice <= Len(pares_od)
    /\ \E candidatas \in CandidatasPosibles(config_ruteo, red_ciclovias,
                                            ParActual[1], ParActual[2]) :
         /\ candidatas /= <<>>
         /\ LET ruta_optima ==
                    MinimaEvaluada(RutasEvaluadas(config_ruteo, red_ciclovias, candidatas))
            IN resultados' = Append(resultados,
                  [origen |-> ParActual[1],
                   destino |-> ParActual[2],
                   ruta_optima |-> ruta_optima.ruta,
                   impedancia_total |-> ruta_optima.impedancia_total,
                   metricas |-> ruta_optima.metricas])
    /\ consola' = Append(consola, [tipo |-> "ruta", par |-> ParActual])
    /\ indice' = indice + 1
    /\ UNCHANGED <<varsAnalisis, varsRuta, varsImp, varsRed, config_ruteo, nodos_snapped, pares_od,
                   resultados_optimizacion, varsRuteo>>

\* lines 75-76: the loop is over
FinalizarLoteRuteo ==
    /\ pc_ruteo = "lote"
    /\ indice > Len(pares_od)
    /\ resultados_ruteo' = resultados
    /\ pc_ruteo' = "finLote"
    /\ UNCHANGED <<varsAnalisis, varsRuta, varsLote, varsImp, varsRed, config_ruteo>>

\* the tables of a batch: rows of 1000 m on three node pairs
FilasLote ==
    {f \in FilasMuestra :
        /\ <<f["A"], f["B"]>> \in {<<0, 1>>, <<1, 2>>, <<2, 1>>}
        /\ f["longitud"] = 1000}

TablasLote == UNION {[1..n -> FilasLote] : n \in 0..MaxEnlaces}

\* the pairs of a batch: origin and destination are node identifiers
ParesRuteo == {<<0, 1>>, <<0, 2>>, <<2, 0>>, <<1, 1>>, <<3, 1>>}

SecuenciasParesRuteo == UNION {[1..n -> ParesRuteo] : n \in 0..MaxPares}

\* the state at line 61, before the first pair
InitLoteRuteo ==
    /\ red_ciclovias \in TablasLote
    /\ config_ruteo = ConfigRuteoDefecto
    /\ pares_od \in SecuenciasParesRuteo
    /\ indice = 1
    /\ resultados = <<>>
    /\ resultados_ruteo = <<>>
    /\ pc_ruteo = "lote"
    /\ consola = <<>>
    /\ nodos_snapped = SinFuncion
    /\ resultados_optimizacion = <<>>
    /\ fila = 1
    /\ grafo = SinFuncion
    /\ pc_red = "inactivo"
    /\ RutaInactiva
    /\ ImpedanciaInactiva
    /\ AnalisisInactivo

NextLoteRuteo ==
    \/ ParSinCandidatas
    \/ ParConCandidatas
    \/ FinalizarLoteRuteo

----------------------------------------------------------------------------
(* SpecLote: a batch of either system. *)

InitLote == InitLoteOptimizacion \/ InitLoteRuteo

NextLote == NextLoteOptimizacion \/ NextLoteRuteo

SpecLote == InitLote /\ [][NextLote]_vars

----------------------------------------------------------------------------
(* SpecSpccm: one call of _calcular_ruta_optima_spccm, the candidate list of
   _encontrar_rutas_candidatas being kept before the candidates are
   evaluated. *)

\* a row of the segment table
FilaSpccm(a, b, longitud, tipo) ==
    ("A" :> a) @@ ("B" :> b) @@ ("longitud" :> longitud)
      @@ ("tipo_infraestructura" :> tipo)

\* sample rows: a detour 0 -> 1 -> 2 of mixed traffic, a longer direct
\* segment 0 -> 2 with or without a segregated lane, and segments of the
\* opposite direction
FilasSpccm ==
    {FilaSpccm(0, 1, 1000, 4), FilaSpccm(1, 2, 1000, 4),
     FilaSpccm(0, 2, 3000, 1), FilaSpccm(0, 2, 3000, 4),
     FilaSpccm(2, 0, 3000, 4), FilaSpccm(1, 0, 1000, 1)}

TablasSpccm == UNION {[1..n -> FilasSpccm] : n \in 0..MaxFilas}

\* node 3 is in no table
ParesSpccm == {<<0, 2>>, <<0, 1>>, <<3, 1>>}

\* line 84, before _encontrar_rutas_candidatas is called
InitSpccm ==
    /\ red_ciclovias \in TablasSpccm
    /\ config_ruteo = ConfigRuteoDefecto
    /\ par_od \in ParesSpccm
    /\ rutas_candidatas = <<>>
    /\ rutas_evaluadas = <<>>
    /\ resultado_spccm = SinResultado
    /\ pc_spccm = "inicio"
    /\ fila = 1
    /\ grafo = SinFuncion
    /\ pc_red = "inactivo"
    /\ RutaInactiva
    /\ LoteInactivo
    /\ ImpedanciaInactiva
    /\ RuteoInactivo
    /\ MetricasInactivas
    /\ CompararInactivo
    /\ CorredoresInactivos

\* line 84: rutas_candidatas = self._encontrar_rutas_candidatas(...)
EncontrarRutasCandidatas ==
    /\ pc_spccm = "inicio"
    /\ rutas_candidatas' \in
          CandidatasPosibles(config_ruteo, red_ciclovias, par_od[1], par_od[2])
    /\ pc_spccm' = "candidatas"
    /\ UNCHANGED <<varsRuta, varsLote, varsImp, varsRed, config_ruteo, varsRuteo,
                   varsMetricas, varsComparar, varsCorredores,
                   par_od, rutas_evaluadas, resultado_spccm>>

\* lines 86-87: if not rutas_candidatas: return None
RetornarSinCandidatas ==
    /\ pc_spccm = "candidatas"
    /\ rutas_candidatas = <<>>
    /\ resultado_spccm' = [estado |-> "None"]
    /\ pc_spccm' = "retornado"
    /\ UNCHANGED <<varsRuta, varsLote, varsImp, varsRed, config_ruteo, varsRuteo,
                   varsMetricas, varsComparar, varsCorredores,
                   par_od, rutas_candidatas, rutas_evaluadas>>

\* lines 90-113: the candidates are evaluated and the least one is returned
RetornarRutaOptima ==
    /\ pc_spccm = "candidatas"
    /\ rutas_candidatas /= <<>>
    /\ rutas_evaluadas' = RutasEvaluadas(config_ruteo, red_ciclovias, rutas_candidatas)
    /\ LET ruta_optima == MinimaEvaluada(rutas_evaluadas')
       IN resultado_spccm' =
            [estado |-> "retornado",
             origen |-> par_od[1],
             destino |-> par_od[2],
             ruta_optima |-> ruta_optima.ruta,
             impedancia_total |-> ruta_optima.impedancia_total,
             metricas |-> ruta_optima.metricas]
    /\ pc_spccm' = "retornado"
    /\ UNCHANGED <<varsRuta, varsLote, varsImp, varsRed, config_ruteo, varsRuteo,
                   varsMetricas, varsComparar, varsCorredores,
                   par_od, rutas_candidatas>>

NextSpccm ==
    \/ EncontrarRutasCandidatas
    \/ RetornarSinCandidatas
    \/ RetornarRutaOptima

SpecSpccm == InitSpccm /\ [][NextSpccm]_vars

----------------------------------------------------------------------------
(* SpecMetricas: one call of _calcular_metricas_ruta, of RuteadorCicloviasSPCCM
   on a segment table or of SistemaOptimizacionCiclovias on a graph, for
   every sample route. *)

\* node sequences of at most MaxSaltos hops, the empty one included
RutasMetricas == UNION {[1..n -> NodosRed] : n \in 0..(MaxSaltos + 1)}

\* sample rows: two node pairs, 1000 m, codes 1 and 2 or no code
FilasMetricas ==
    {("A" :> par[1]) @@ ("B" :> par[2]) @@ ("longitud" :> 1000) @@ t :
        par \in {<<0, 1>>, <<2, 1>>},
        t \in Opcional("tipo_infraestructura", {1, 2})}

TablasMetricas == UNION {[1..n -> FilasMetricas] : n \in 0..MaxEnlaces}

\* sample graphs: the subsets of three directed edges
GrafosMetricas ==
    UNION {[S -> {[weight |-> 2, length |-> 1000]}] :
             S \in SUBSET {<<0, 1>>, <<2, 1>>, <<1, 2>>}}

InitMetricasRuteo ==
    /\ red_ciclovias \in TablasMetricas
    /\ config_ruteo = ConfigRuteoDefecto
    /\ ruta_metricas \in RutasMetricas
    /\ metricas = SinResultado
    /\ pc_metricas = "ruteo"
    /\ fila = 1
    /\ grafo = SinFuncion
    /\ pc_red = "inactivo"
    /\ RutaInactiva
    /\ LoteInactivo
    /\ ImpedanciaInactiva
    /\ RuteoInactivo
    /\ CompararInactivo
    /\ CorredoresInactivos
    /\ SpccmInactivo

InitMetricasOptimizacion ==
    /\ grafo_ciclista \in GrafosMetricas
    /\ ruta_metricas \in RutasMetricas
    /\ metricas = SinResultado
    /\ pc_metricas = "optimizacion"
    /\ origen = Ninguno
    /\ destino = Ninguno
    /\ distancias = SinFuncion
    /\ predecesores = SinFuncion
    /\ cola_prioridad = {}
    /\ encolados = <<>>
    /\ expandidos = <<>>
    /\ ruta = <<>>
    /\ actual = Ninguno
    /\ retorno = SinRetorno
    /\ pc = "inactivo"
    /\ config_ruteo = ConfigRuteoDefecto
    /\ LoteInactivo
    /\ ImpedanciaInactiva
    /\ RedInactiva
    /\ RuteoInactivo
    /\ CompararInactivo
    /\ CorredoresInactivos
    /\ SpccmInactivo

\* RuteadorCicloviasSPCCM._calcular_metricas_ruta(ruta, red_ciclovias)
RetornarMetricasRuteo ==
    /\ pc_metricas = "ruteo"
    /\ metricas' = CalcularMetricasRuteo(config_ruteo, red_ciclovias, ruta_metricas)
    /\ pc_metricas' = "ruteo_retornado"
    /\ UNCHANGED <<varsRuta, varsLote, varsImp, varsRed, config_ruteo, varsRuteo,
                   ruta_metricas, varsComparar, varsCorredores, varsSpccm>>

\* SistemaOptimizacionCiclovias._calcular_metricas_ruta(ruta)
RetornarMetricasRuta ==
    /\ pc_metricas = "optimizacion"
    /\ metricas' = CalcularMetricasRuta(grafo_ciclista, ruta_metricas)
    /\ pc_metricas' = "optimizacion_retornado"
    /\ UNCHANGED <<varsRuta, varsLote, varsImp, varsRed, config_ruteo, varsRuteo,
                   ruta_metricas, varsComparar, varsCorredores, varsSpccm>>

InitMetricas == InitMetricasRuteo \/ InitMetricasOptimizacion

----------------------------------------------------------------------------
(* Corridor aggregation: generar_mapa_corredores_prioritarios
   (raptor_mapping.py) and _identificar_corredores_prioritarios
   (transit_stats.py).  A dict is the sequence of its items in insertion
   order, which is the order Python iterates it in. *)

\* the slice [:10] of transit_stats.py
TopN == 10

RECURSIVE Recorridos(_, _)
\* the segments met by the two nested for loops over the first n routes
Recorridos(listas, n) ==
    IF n = 0 THEN <<>> ELSE Recorridos(listas, n - 1) \o listas[n]

\* position of the key arco in the dict, 0 when it is not a key
Posicion(entradas, arco) ==
    IF \E k \in 1..Len(entradas) : entradas[k].arco = arco
    THEN CHOOSE k \in 1..Len(entradas) : entradas[k].arco = arco
    ELSE 0

\* raptor_mapping.py lines 207-216 for one segment
UsarSegmento(entradas, segmento) ==
    LET arco == segmento["arco"]
        k == Posicion(entradas, arco)
    IN IF k /= 0
       THEN [entradas EXCEPT
               ![k].frecuencia = @ + 1,
               ![k].impedancia_acumulada = @ + segmento["impedancia"]]
       ELSE Append(entradas,
                   [arco |-> arco,
                    frecuencia |-> 1,
                    impedancia_acumulada |-> segmento["impedancia"],
                    tipo_infraestructura |-> segmento["tipo_infraestructura"]])

RECURSIVE SegmentosUtilizados(_, _)
\* the dict segmentos_utilizados after the first n traversals
SegmentosUtilizados(recorridos, n) ==
    IF n = 0 THEN <<>>
    ELSE UsarSegmento(SegmentosUtilizados(recorridos, n - 1), recorridos[n])

\* the keys the loop body reads from a segment, lines 207-216: without the
\* key arco nothing else is read, and tipo_infraestructura is read for a new
\* arc alone
CamposLeidos(entradas, segmento) ==
    IF "arco" \notin DOMAIN segmento THEN {"arco"}
    ELSE IF Posicion(entradas, segmento["arco"]) /= 0 THEN {"arco", "impedancia"}
    ELSE {"arco", "impedancia", "tipo_infraestructura"}

RECURSIVE SinKeyError(_, _)
\* the first n traversals raise no KeyError
SinKeyError(recorridos, n) ==
    \/ n = 0
    \/ /\ SinKeyError(recorridos, n - 1)
       /\ CamposLeidos(SegmentosUtilizados(recorridos, n - 1), recorridos[n])
             \subseteq DOMAIN recorridos[n]

\* _obtener_geometria_segmento on the table it is given: the position of the
\* first row that joins the two nodes in either direction; 0 stands for None,
\* returned when no row matches and, by the except clause, when the table has
\* no column A or B
ObtenerGeometriaSegmento(nodo_inicio, nodo_fin, tabla) ==
    LET coinciden == {i \in 1..Len(tabla) :
                        /\ {"A", "B"} \subseteq DOMAIN tabla[i]
                        /\ \/ tabla[i]["A"] = nodo_inicio /\ tabla[i]["B"] = nodo_fin
                           \/ tabla[i]["A"] = nodo_fin /\ tabla[i]["B"] = nodo_inicio}
    IN IF coinciden = {} THEN 0
       ELSE CHOOSE i \in coinciden : \A j \in coinciden : i <= j

\* line 225: if geometria
ConGeometria(geometria) == geometria /= 0

RECURSIVE CorredoresData(_, _, _)
\* the list corredores_data after the first n items of segmentos_utilizados;
\* the geometry is looked up in gdf_rutas itself (line 223)
CorredoresData(entradas, tabla, n) ==
    IF n = 0 THEN <<>>
    ELSE LET datos == entradas[n]
             prioridad == datos.frecuencia * datos.impedancia_acumulada
             geometria == ObtenerGeometriaSegmento(datos.arco[1], datos.arco[2], tabla)
             antes == CorredoresData(entradas, tabla, n - 1)
         IN IF ConGeometria(geometria)
            THEN Append(antes,
                   [nodo_inicio |-> datos.arco[1],
                    nodo_fin |-> datos.arco[2],
                    frecuencia_uso |-> datos.frecuencia,
                    impedancia_promedio |->
                        Rac(datos.impedancia_acumulada, datos.frecuencia),
                    prioridad_inversion |-> prioridad,
                    tipo_infraestructura |-> datos.tipo_infraestructura,
                    geometria |-> geometria])
            ELSE antes

RECURSIVE OrdenesDescendentes(_, _)
\* sort_values('prioridad_inversion', ascending=False) on the rows of the
\* positions S: pandas sorts with kind='quicksort', which is not a stable
\* sort, so rows of equal priority may come out in any order
OrdenesDescendentes(datos, S) ==
    IF S = {} THEN {<<>>}
    ELSE LET mayores == {k \in S : \A j \in S :
                            datos[k].prioridad_inversion >= datos[j].prioridad_inversion}
         IN UNION {{<<datos[k]>> \o resto : resto \in OrdenesDescendentes(datos, S \ {k})} :
                     k \in mayores}

\* the segment lists of the rows of gdf_rutas, in row order
SegmentosDetalle(tabla) == [i \in 1..Len(tabla) |-> tabla[i]["segmentos_detalle"]]

\* the GeoDataFrames generar_mapa_corredores_prioritarios can return, as the
\* sequence of their rows; gpd.GeoDataFrame() of line 245 is the empty one
GenerarMapaCorredoresPrioritarios(tabla) ==
    LET recorridos == Recorridos(SegmentosDetalle(tabla), Len(tabla))
        entradas == SegmentosUtilizados(recorridos, Len(recorridos))
        corredores_data == CorredoresData(entradas, tabla, Len(entradas))
    IN OrdenesDescendentes(corredores_data, 1..Len(corredores_data))

\* transit_stats.py lines 182-183 for one segment
ContarSegmento(frecuencias, segmento) ==
    LET arco == <<segmento["nodo_inicio"], segmento["nodo_fin"]>>
        k == Posicion(frecuencias, arco)
    IN IF k /= 0
       THEN [frecuencias EXCEPT ![k].frecuencia = @ + 1]
       ELSE Append(frecuencias, [arco |-> arco, frecuencia |-> 1])

RECURSIVE FrecuenciaSegmentos(_, _)
\* the dict frecuencia_segmentos after the first n traversals
FrecuenciaSegmentos(recorridos, n) ==
    IF n = 0 THEN <<>>
    ELSE ContarSegmento(FrecuenciaSegmentos(recorridos, n - 1), recorridos[n])

RECURSIVE OrdenarPorFrecuencia(_, _)
\* sorted(items, key=lambda x: x[1], reverse=True) on the positions S: the
\* sort of Python is stable, also with reverse=True, so among items of equal
\* frequency the one inserted first comes first
OrdenarPorFrecuencia(frecuencias, S) ==
    IF S = {} THEN <<>>
    ELSE LET k == CHOOSE i \in S :
                    /\ \A j \in S : frecuencias[i].frecuencia >= frecuencias[j].frecuencia
                    /\ \A j \in S : (j < i)
                          => frecuencias[j].frecuencia < frecuencias[i].frecuencia
         IN <<frecuencias[k]>> \o OrdenarPorFrecuencia(frecuencias, S \ {k})

\* [:10]
CorteTopN(lista) == SubSeq(lista, 1, IF Len(lista) < TopN THEN Len(lista) ELSE TopN)

\* resultado.get('metricas', {}).get('segmentos', []) of every result
SegmentosDeResultados(resultados_optimizados) ==
    [i \in 1..Len(resultados_optimizados) |->
        Get(Get(resultados_optimizados[i], "metricas", SinFuncion), "segmentos", <<>>)]

\* _identificar_corredores_prioritarios: the list of arcs it returns
IdentificarCorredoresPrioritarios(resultados_optimizados) ==
    LET recorridos == Recorridos(SegmentosDeResultados(resultados_optimizados),
                                 Len(resultados_optimizados))
        frecuencias == FrecuenciaSegmentos(recorridos, Len(recorridos))
        ordenados == CorteTopN(OrdenarPorFrecuencia(frecuencias, 1..Len(frecuencias)))
    IN [k \in 1..Len(ordenados) |-> ordenados[k].arco]

----------------------------------------------------------------------------
(* SpecCorredores: both aggregators on every sample collection of routes. *)

\* a segment detail with the fields either aggregator reads
SegmentoMuestra(a, b, impedancia, tipo) ==
    [arco |-> <<a, b>>, nodo_inicio |-> a, nodo_fin |-> b,
     impedancia |-> impedancia, tipo_infraestructura |-> tipo]

\* eleven segments on eleven different arcs
RutaLarga == [k \in 1..(TopN + 1) |-> SegmentoMuestra(k, k + 1, k, 3)]

\* sample segment lists of a route
ListasSegmentos ==
    {<<>>,
     <<SegmentoMuestra(0, 1, 1, 1)>>,
     <<SegmentoMuestra(1, 2, 1, 3), SegmentoMuestra(0, 1, 1, 1)>>,
     <<SegmentoMuestra(0, 1, 1, 1), SegmentoMuestra(1, 0, 5, 1)>>,
     RutaLarga}

\* sample rows of gdf_rutas: the segment list of the route, with or without
\* the columns A and B
FilasRutas ==
    {("segmentos_detalle" :> segs) @@ ab :
        segs \in ListasSegmentos,
        ab \in {SinFuncion} \cup {("A" :> par[1]) @@ ("B" :> par[2]) :
                                   par \in {<<0, 1>>, <<1, 2>>}}}

\* a table has its columns in every row
TablasRutas ==
    {t \in UNION {[1..n -> FilasRutas] : n \in 0..MaxRutas} :
        \A i, j \in 1..Len(t) : DOMAIN t[i] = DOMAIN t[j]}

\* the results the routes of the table were mapped from (raptor_mapping.py
\* line 53: segmentos_detalle is resultado['metricas']['segmentos'])
ResultadosDeRutas(tabla) ==
    [i \in 1..Len(tabla) |->
        ("metricas" :> ("segmentos" :> tabla[i]["segmentos_detalle"]))]

InitCorredores ==
    /\ gdf_rutas \in TablasRutas
    /\ lote_optimizado = ResultadosDeRutas(gdf_rutas)
    /\ escenario_base = <<>>
    /\ corredores_mapa = SinResultado
    /\ corredores_prioritarios = SinResultado
    /\ reporte_optimizacion = SinResultado
    /\ reporte_ruteo = SinResultado
    /\ metricas_globales = SinResultado
    /\ config_ruteo = ConfigRuteoDefecto
    /\ RutaInactiva
    /\ LoteInactivo
    /\ ImpedanciaInactiva
    /\ RedInactiva
    /\ RuteoInactivo
    /\ MetricasInactivas
    /\ SpccmInactivo

\* generar_mapa_corredores_prioritarios(gdf_rutas, metricas_centralidad): the
\* GeoDataFrame it returns, or the KeyError of a segment without a key the
\* loop reads, which nothing catches
GenerarMapaCorredores ==
    /\ corredores_mapa = SinResultado
    /\ pc_metricas \in {"inactivo", "mapeado"}
    /\ LET recorridos == Recorridos(SegmentosDetalle(gdf_rutas), Len(gdf_rutas))
       IN IF SinKeyError(recorridos, Len(recorridos))
          THEN \E filas \in GenerarMapaCorredoresPrioritarios(gdf_rutas) :
                  corredores_mapa' = [estado |-> "retornado", filas |-> filas]
          ELSE corredores_mapa' = [estado |-> "KeyError"]
    /\ UNCHANGED <<varsRuta, varsLote, varsImp, varsRed, config_ruteo, varsRuteo,
                   varsMetricas, varsComparar, varsSpccm, gdf_rutas, corredores_prioritarios>>

\* _identificar_corredores_prioritarios(resultados_optimizados)
IdentificarCorredores ==
    /\ corredores_prioritarios = SinResultado
    /\ corredores_prioritarios' =
          [estado |-> "retornado",
           corredores |-> IdentificarCorredoresPrioritarios(lote_optimizado)]
    /\ UNCHANGED <<varsRuta, varsLote, varsImp, varsRed, config_ruteo, varsRuteo,
                   varsMetricas, varsComparar, varsSpccm, gdf_rutas, corredores_mapa>>

NextCorredores == GenerarMapaCorredores \/ IdentificarCorredores

\* generar_geometrias_rutas_optimizadas for the result that holds the metrics
\* (raptor_mapping.py lines 37-69): a result whose metrics lack a key read at
\* lines 49-53 is skipped by the except clause, and so is a route for which
\* _reconstruir_geometria_ruta finds fewer than two points; whether it does
\* depends on the geometries of the network, which are not held here
MapearRuta ==
    /\ pc_metricas \in {"ruteo_retornado", "optimizacion_retornado"}
    /\ \/ /\ {"distancia_total", "num_segmentos", "segmentos"} \subseteq metricas.claves
          /\ gdf_rutas' = <<("segmentos_detalle" :> metricas.segmentos)>>
       \/ gdf_rutas' = <<>>
    /\ pc_metricas' = "mapeado"
    /\ UNCHANGED <<varsRuta, varsLote, varsImp, varsRed, config_ruteo, varsRuteo,
                   ruta_metricas, metricas, varsComparar, varsSpccm,
                   corredores_mapa, corredores_prioritarios>>

----------------------------------------------------------------------------
(* SpecMetricas: the metrics of a route, and the corridor map of the route
   mapped from them. *)

NextMetricas ==
    \/ RetornarMetricasRuteo
    \/ RetornarMetricasRuta
    \/ MapearRuta
    \/ GenerarMapaCorredores

SpecMetricas == InitMetricas /\ [][NextMetricas]_vars

SpecCorredores == InitCorredores /\ [][NextCorredores]_vars

----------------------------------------------------------------------------
(* Scenario comparison: comparar_escenarios (helper_functions.py),
   comparar_escenarios_ruteo (raptor_routing.py) and
   calcular_metricas_articulo (transit_stats.py).  The means are numpy
   float64 values: a division by zero and the mean of an empty list raise
   nothing (numpy only warns) and give inf or nan.  A float is a rational, or
   one of the three values below. *)

NaN == [n |-> 0, d |-> 0]
PosInf == [n |-> 1, d |-> 0]
NegInf == [n |-> -1, d |-> 0]

EsFinito(x) == x.d /= 0

\* x - y; the operands here are finite or nan
FResta(x, y) == IF EsFinito(x) /\ EsFinito(y) THEN RResta(x, y) ELSE NaN

\* x / y; the operands here are finite or nan
FDiv(x, y) ==
    IF ~EsFinito(x) \/ ~EsFinito(y) THEN NaN
    ELSE IF y.n /= 0 THEN RDiv(x, y)
    ELSE IF x.n = 0 THEN NaN
    ELSE IF x.n > 0 THEN PosInf ELSE NegInf

\* x * y for a finite y > 0
FMul(x, y) == IF EsFinito(x) THEN RMul(x, y) ELSE x

RECURSIVE SumaValores(_, _)
SumaValores(valores, n) ==
    IF n = 0 THEN Ent(0) ELSE RSuma(SumaValores(valores, n - 1), valores[n])

\* np.mean of a list of finite numbers: nan for the empty list
Media(valores) ==
    IF Len(valores) = 0 THEN NaN
    ELSE RDiv(SumaValores(valores, Len(valores)), Ent(Len(valores)))

\* [r.get('impedancia_total', 0) for r in lote]; every sample result has the key
Impedancias(lote) == [i \in 1..Len(lote) |-> Get(lote[i], "impedancia_total", Ent(0))]

\* [r.get('metricas', {}).get(clave, 0) for r in lote]
ValoresMetricas(lote, clave) ==
    [i \in 1..Len(lote) |-> Ent(Get(Get(lote[i], "metricas", SinFuncion), clave, 0))]

\* r['metricas']['distancia_total'] raises KeyError for some result of the batch
SinDistanciaTotal(lote) ==
    \E i \in 1..Len(lote) : "distancia_total" \notin DOMAIN lote[i]["metricas"]

\* comparar_escenarios: the dict it returns, or the exception it raises
CompararEscenarios(optimizados, base) ==
    LET impedancia_base == Media(Impedancias(base))
        impedancia_optimizada == Media(Impedancias(optimizados))
        reduccion_impedancia ==
            FMul(FDiv(FResta(impedancia_base, impedancia_optimizada), impedancia_base),
                 Ent(100))
        distancia_base == Media(ValoresMetricas(base, "distancia_total"))
        distancia_optimizada == Media(ValoresMetricas(optimizados, "distancia_total"))
        porcentaje_desvio ==
            FMul(FDiv(FResta(distancia_optimizada, distancia_base), distancia_base),
                 Ent(100))
    IN IF SinDistanciaTotal(base) \/ SinDistanciaTotal(optimizados)
       THEN [estado |-> "KeyError"]
       ELSE [estado |-> "retornado",
             claves |-> {"reduccion_impedancia", "porcentaje_desvio",
                         "impedancia_promedio_base", "impedancia_promedio_optimizada",
                         "distancia_promedio_base", "distancia_promedio_optimizada"},
             reduccion_impedancia |-> reduccion_impedancia,
             porcentaje_desvio |-> porcentaje_desvio,
             impedancia_promedio_base |-> impedancia_base,
             impedancia_promedio_optimizada |-> impedancia_optimizada,
             distancia_promedio_base |-> distancia_base,
             distancia_promedio_optimizada |-> distancia_optimizada]

\* comparar_escenarios_ruteo: the dict it returns; a key that is not in
\* claves is not in the dict
CompararEscenariosRuteo(optimizados, base) ==
    IF Len(optimizados) = 0
    THEN [estado |-> "retornado", claves |-> {},
          reduccion_impedancia |-> Ent(0),
          porcentaje_seguridad_promedio |-> Ent(0),
          total_rutas_optimizadas |-> 0]
    ELSE LET impedancia_base == Media(Impedancias(base))
             impedancia_optimizada == Media(Impedancias(optimizados))
         IN [estado |-> "retornado",
             claves |-> (IF Len(base) > 0 THEN {"reduccion_impedancia"} ELSE {})
                          \cup {"porcentaje_seguridad_promedio",
                                "total_rutas_optimizadas"},
             reduccion_impedancia |->
                 IF Len(base) > 0 /\ RPositivo(impedancia_base)
                 THEN FMul(FDiv(FResta(impedancia_base, impedancia_optimizada),
                                impedancia_base), Ent(100))
                 ELSE Ent(0),
             porcentaje_seguridad_promedio |->
                 Media(ValoresMetricas(optimizados, "porcentaje_infra_segura")),
             total_rutas_optimizadas |-> Len(optimizados)]

\* _calcular_reduccion_impedancia
CalcularReduccionImpedancia(optimizados, base) ==
    LET impedancia_base == Media(Impedancias(base))
        impedancia_optimizada == Media(Impedancias(optimizados))
    IN IF RPositivo(impedancia_base)
       THEN RMax0(FMul(FDiv(FResta(impedancia_base, impedancia_optimizada),
                            impedancia_base), Ent(100)))
       ELSE Ent(0)

\* _calcular_porcentaje_desvio
CalcularPorcentajeDesvio(optimizados, base) ==
    LET distancia_base == Media(ValoresMetricas(base, "distancia_total"))
        distancia_optimizada == Media(ValoresMetricas(optimizados, "distancia_total"))
    IN IF RPositivo(distancia_base)
       THEN FMul(FDiv(FResta(distancia_optimizada, distancia_base), distancia_base),
                 Ent(100))
       ELSE Ent(0)

\* MetricasSPCCM(): every field 0
MetricasSPCCM ==
    [estado |-> "retornado",
     reduccion_impedancia |-> Ent(0),
     porcentaje_desvio |-> Ent(0),
     porcentaje_seguridad |-> Ent(0),
     tiempo_promedio_viaje |-> Ent(0),
     distancia_promedio |-> Ent(0),
     corredores_prioritarios |-> 0,
     total_rutas_optimizadas |-> 0]

\* calcular_metricas_articulo on a new AnalizadorEstadisticoCiclovias: the
\* MetricasSPCCM object it returns
CalcularMetricasArticulo(optimizados, base) ==
    IF Len(optimizados) = 0 THEN MetricasSPCCM
    ELSE [estado |-> "retornado",
          reduccion_impedancia |->
              IF Len(base) > 0 THEN CalcularReduccionImpedancia(optimizados, base)
              ELSE MetricasSPCCM.reduccion_impedancia,
          porcentaje_desvio |->
              IF Len(base) > 0 THEN CalcularPorcentajeDesvio(optimizados, base)
              ELSE MetricasSPCCM.porcentaje_desvio,
          porcentaje_seguridad |->
              Media(ValoresMetricas(optimizados, "porcentaje_infra_segura")),
          tiempo_promedio_viaje |-> Media(Impedancias(optimizados)),
          distancia_promedio |-> Media(ValoresMetricas(optimizados, "distancia_total")),
          corredores_prioritarios |-> Len(IdentificarCorredoresPrioritarios(optimizados)),
          total_rutas_optimizadas |-> Len(optimizados)]

----------------------------------------------------------------------------
(* SpecComparar: the three comparators on every pair of sample batches. *)

\* sample results: impedance in minutes, distance in metres, percentage of
\* safe infrastructure; the last one has the metrics {} of a route of one node
ResultadosMuestra ==
    {[impedancia_total |-> Ent(0),
      metricas |-> [distancia_total |-> 0, porcentaje_infra_segura |-> 0]],
     [impedancia_total |-> Ent(4),
      metricas |-> [distancia_total |-> 1000, porcentaje_infra_segura |-> 50]],
     [impedancia_total |-> Ent(8),
      metricas |-> [distancia_total |-> 2000, porcentaje_infra_segura |-> 100]],
     [impedancia_total |-> Ent(0), metricas |-> SinFuncion]}

LotesMuestra == UNION {[1..n -> ResultadosMuestra] : n \in 0..MaxLote}

InitComparar ==
    /\ lote_optimizado \in LotesMuestra
    /\ escenario_base \in LotesMuestra
    /\ reporte_optimizacion = SinResultado
    /\ reporte_ruteo = SinResultado
    /\ metricas_globales = SinResultado
    /\ config_ruteo = ConfigRuteoDefecto
    /\ RutaInactiva
    /\ LoteInactivo
    /\ ImpedanciaInactiva
    /\ RedInactiva
    /\ RuteoInactivo
    /\ MetricasInactivas
    /\ CorredoresInactivos
    /\ SpccmInactivo

\* SistemaOptimizacionCiclovias.comparar_escenarios(escenario_base), with
\* self.resultados_optimizacion = lote_optimizado
RetornarComparacion ==
    /\ reporte_optimizacion = SinResultado
    /\ reporte_optimizacion' = CompararEscenarios(lote_optimizado, escenario_base)
    /\ UNCHANGED <<varsRuta, varsLote, varsImp, varsRed, config_ruteo, varsRuteo,
                   varsMetricas, varsCorredores, varsSpccm, lote_optimizado, escenario_base,
                   reporte_ruteo, metricas_globales>>

\* RuteadorCicloviasSPCCM.comparar_escenarios_ruteo(escenario_base), with
\* self.resultados_ruteo = lote_optimizado
RetornarComparacionRuteo ==
    /\ reporte_ruteo = SinResultado
    /\ reporte_ruteo' = CompararEscenariosRuteo(lote_optimizado, escenario_base)
    /\ UNCHANGED <<varsRuta, varsLote, varsImp, varsRed, config_ruteo, varsRuteo,
                   varsMetricas, varsCorredores, varsSpccm, lote_optimizado, escenario_base,
                   reporte_optimizacion, metricas_globales>>

\* AnalizadorEstadisticoCiclovias.calcular_metricas_articulo(lote_optimizado,
\* escenario_base)
RetornarMetricasArticulo ==
    /\ metricas_globales = SinResultado
    /\ metricas_globales' = CalcularMetricasArticulo(lote_optimizado, escenario_base)
    /\ UNCHANGED <<varsRuta, varsLote, varsImp, varsRed, config_ruteo, varsRuteo,
                   varsMetricas, varsCorredores, varsSpccm, lote_optimizado, escenario_base,
                   reporte_optimizacion, reporte_ruteo>>

NextComparar ==
    \/ RetornarComparacion
    \/ RetornarComparacionRuteo
    \/ RetornarMetricasArticulo

SpecComparar == InitComparar /\ [][NextComparar]_vars

----------------------------------------------------------------------------
(* Reference notions the claims are stated with. *)

RECURSIVE CostoMinimoDesde(_, _, _, _)
\* least total weight of a directed path from u to d that avoids the nodes of
\* visitados, Inf when there is none.  Weights are non-negative, so the least
\* over the simple paths is the least over all directed paths.
CostoMinimoDesde(g, u, d, visitados) ==
    IF u = d THEN 0
    ELSE LET sig == Vecinos(g, u) \ visitados
             costos == {Suma(Peso(g, u, v),
                             CostoMinimoDesde(g, v, d, visitados \cup {v})) : v \in sig}
         IN IF costos = {} THEN Inf
            ELSE CHOOSE c \in costos : \A c2 \in costos : c <= c2

CostoMinimo(g, o, d) == CostoMinimoDesde(g, o, d, {o})

Alcanzable(g, o, d) == CostoMinimo(g, o, d) < Inf

RECURSIVE SumaPesos(_, _, _)
\* sum of the weights of the hops i, i+1, ... of the node sequence r
SumaPesos(g, r, i) ==
    IF i >= Len(r) THEN 0
    ELSE Suma(Peso(g, r[i], r[i + 1]), SumaPesos(g, r, i + 1))

\* every consecutive pair of r is a directed edge of g
EsCamino(g, r) == \A i \in 1..(Len(r) - 1) : HasEdge(g, r[i], r[i + 1])

Retornado == pc = "retornado"
EnGrafo(n) == n \in Nodos(grafo_ciclista)

----------------------------------------------------------------------------
(* Claims on the search. *)

\* C1: with origin and destination in the graph and the destination
\* reachable, the returned cost is the least sum of edge weights over the
\* directed paths from origin to destination; on A->B 5, B->C 3, A->C 10 the
\* search from A to C returns the route [A, B, C] with cost 8.
C1_CostoMinimo ==
    /\ (Retornado /\ EnGrafo(origen) /\ EnGrafo(destino)
           /\ Alcanzable(grafo_ciclista, origen, destino))
          => retorno.costo = CostoMinimo(grafo_ciclista, origen, destino)
    /\ (Retornado /\ grafo_ciclista = GrafoEjemplo /\ origen = 0 /\ destino = 2)
          => retorno = [ruta |-> <<0, 1, 2>>, costo |-> 8]

C1_Witness ==
    /\ Retornado /\ grafo_ciclista = GrafoEjemplo /\ origen = 0 /\ destino = 2
    /\ retorno.costo = 8

\* C2 (as stated): every returned route starts at the origin, ends at the
\* destination, follows directed edges of the graph, and the weights of its
\* edges sum to the returned cost.
C2_RutaCoherente ==
    Retornado =>
        /\ Len(retorno.ruta) >= 1
        /\ retorno.ruta[1] = origen
        /\ retorno.ruta[Len(retorno.ruta)] = destino
        /\ EsCamino(grafo_ciclista, retorno.ruta)
        /\ SumaPesos(grafo_ciclista, retorno.ruta, 1) = retorno.costo

\* C3 (as stated): a destination of the graph that the origin does not reach
\* gives cost +infinity and a route with no node at all, and no error.
C3_InalcanzableRutaVacia ==
    (EnGrafo(origen) /\ EnGrafo(destino)
       /\ ~Alcanzable(grafo_ciclista, origen, destino))
      => /\ pc /= "error"
         /\ Retornado => (retorno.costo = Inf /\ retorno.ruta = <<>>)

\* C4 (as stated): with the origin or the destination absent from the graph
\* the search returns no (route, cost) result.
C4_AusenteNoRetorna ==
    Retornado => (EnGrafo(origen) /\ EnGrafo(destino))

\* C5: for a node n of the graph the search from n to n does not fail and
\* returns the route [n] with cost 0, whatever edges leave or enter n.
C5_OrigenIgualDestino ==
    (origen = destino /\ EnGrafo(origen))
      => /\ pc /= "error"
         /\ Retornado => retorno = [ruta |-> <<origen>>, costo |-> 0]

C5_Witness ==
    /\ Retornado /\ origen = destino
    /\ \E a, b \in Nodos(grafo_ciclista) :
          HasEdge(grafo_ciclista, origen, a) /\ HasEdge(grafo_ciclista, b, origen)
    /\ retorno.ruta = <<origen>>

----------------------------------------------------------------------------
(* Claims on the batch. *)

LoteTerminado == pc = "finLote"

\* the (origin id, destination id) pairs of a list of results, in order
ParesDe(res) == [i \in 1..Len(res) |-> <<res[i].origen, res[i].destino>>]

\* both ids of the pair are keys of the snapping map
Resuelto(par) == par[1] \in DOMAIN nodos_snapped /\ par[2] \in DOMAIN nodos_snapped

\* the search between two nodes raises nothing: only the expansion of an
\* origin that is not in the graph raises, and an origin equal to the
\* destination is never expanded
BusquedaSinError(o, d) == o \in Nodos(grafo_ciclista) \/ o = d

\* the pair is resolved and its search raises nothing
ResueltoYExitoso(par) ==
    Resuelto(par) /\ BusquedaSinError(nodos_snapped[par[1]], nodos_snapped[par[2]])

\* the pair passes the test of line 120 and its search raises nothing
BuscadoYExitoso(par) ==
    /\ Resuelto(par)
    /\ ~EsFalso(nodos_snapped[par[1]]) /\ ~EsFalso(nodos_snapped[par[2]])
    /\ BusquedaSinError(nodos_snapped[par[1]], nodos_snapped[par[2]])

\* C6 (as stated): a pair with an id absent from the snapping map gets no
\* result, and the batch holds one result for every other pair whose two ids
\* are resolved and whose search succeeds.
C6_OmiteSoloNoResueltos ==
    LoteTerminado =>
        ParesDe(resultados_optimizacion) = SelectSeq(pares_od, ResueltoYExitoso)

RECURSIVE Clausura(_, _)
\* the nodes that the nodes of S reach along the edges of g
Clausura(g, S) ==
    LET T == S \cup {v \in Nodos(g) : \E u \in S : <<u, v>> \in DOMAIN g}
    IN IF T = S THEN S ELSE Clausura(g, T)

\* both nodes of the pair are in the graph of the table and the second is
\* reached from the first
ConRutaEnRed(par) ==
    LET g == CrearGrafoDesdeRed(config_ruteo, red_ciclovias)
    IN /\ par[1] \in Nodos(g)
       /\ par[2] \in Nodos(g)
       /\ par[2] \in Clausura(g, {par[1]})

\* C7: a failure while processing a pair never aborts the batch (before the
\* end of the loop SistemaOptimizacionCiclovias always has a next step, and
\* RuteadorCicloviasSPCCM has an outcome for every pair), the loop ends after
\* the last pair, and the returned results are the pairs that succeeded, in
\* the order of pares_od: in SistemaOptimizacionCiclovias the pairs searched
\* without an exception, in RuteadorCicloviasSPCCM the pairs with a route.
C7_LoteSiempreCompleta ==
    /\ (pc_ruteo = "inactivo" /\ ~LoteTerminado) => ENABLED NextLoteOptimizacion
    /\ pc_ruteo \in {"inactivo", "lote", "finLote"}
    /\ (pc_ruteo = "lote" /\ indice <= Len(pares_od))
          => CandidatasPosibles(config_ruteo, red_ciclovias,
                                ParActual[1], ParActual[2]) /= {}
    /\ indice <= Len(pares_od) + 1
    /\ LoteTerminado =>
          /\ indice = Len(pares_od) + 1
          /\ Len(consola) = Len(pares_od)
          /\ ParesDe(resultados_optimizacion) = SelectSeq(pares_od, BuscadoYExitoso)
    /\ pc_ruteo = "finLote" =>
          /\ indice = Len(pares_od) + 1
          /\ ParesDe(resultados_ruteo) = SelectSeq(pares_od, ConRutaEnRed)

C7_Witness ==
    /\ LoteTerminado
    /\ \E i \in 1..Len(consola) : consola[i].tipo = "error"
    /\ \E i, j \in 1..Len(consola) : i < j /\ consola[j].tipo = "ruta"
    /\ Len(resultados_optimizacion) >= 1

----------------------------------------------------------------------------
(* Claims on the graph builder. *)

\* C8 (as stated): for every segment (a, b) of the table the built graph
\* holds the edge a -> b and the edge b -> a, with the same weights.
C8_AristasEnAmbosSentidos ==
    pc_red = "construido" =>
        \A i \in 1..Len(red_ciclovias) :
            LET a == red_ciclovias[i]["A"]
                b == red_ciclovias[i]["B"]
            IN /\ <<a, b>> \in DOMAIN grafo
               /\ <<b, a>> \in DOMAIN grafo
               /\ grafo[<<a, b>>] = grafo[<<b, a>>]

----------------------------------------------------------------------------
(* Claims on the impedance. *)

\* safety factor of the specification: segregated 0.1, bike lane 0.3, shared
\* street 0.6, none 0.9, and 0.6 as the stated default of any other value
SeguridadEspecificada(e) ==
    LET t == SerieGet(e, "tipo_infraestructura", 3)
    IN IF t = 1 THEN Rac(1, 10)
       ELSE IF t = 2 THEN Rac(3, 10)
       ELSE IF t = 4 THEN Rac(9, 10)
       ELSE Rac(6, 10)

\* base_time x (1 + F) of the specification, absent attributes at their
\* defaults (slope 0, volume 0, vehicle speed 30)
ImpedanciaEspecificada(cfg, e) ==
    LET base_time ==
            RMul(RDiv(RDiv(Ent(e["longitud"]), Ent(1000)),
                      cfg.velocidad_promedio_bicicleta), Ent(60))
        exceso == SerieGet(e, "velocidad_vehicular", 30) - 30
        F == RSuma(SeguridadEspecificada(e),
               RSuma(RMul(cfg.coeficiente_pendiente, Ent(Abs(SerieGet(e, "pendiente", 0)))),
                 RSuma(RMul(cfg.coeficiente_trafico, Ent(SerieGet(e, "volumen_vehicular", 0))),
                       RMul(cfg.coeficiente_velocidad,
                            Ent(IF exceso > 0 THEN exceso ELSE 0)))))
    IN RSuma(base_time, RMul(base_time, F))

\* length 1000, segregated, slope 0, volume 0, vehicle speed 30
EnlaceEjemplo ==
    ("longitud" :> 1000) @@ ("tipo_infraestructura" :> 1) @@ ("pendiente" :> 0)
      @@ ("volumen_vehicular" :> 0) @@ ("velocidad_vehicular" :> 30)

\* C9: the impedance of the network loader is base_time x (1 + F) with
\* base_time = (length_m/1000/bike_speed_kph) x 60 and F the sum of the
\* safety factor, slope_coef x |slope|, traffic_coef x volume and
\* speed_coef x max(0, vehicle_speed - 30); the segment of length 1000,
\* segregated, flat, without traffic, at bike speed 15 costs 4.4 minutes.
C9_FormulaMulticriterio ==
    impedancia_multicriterio /= SinCalcular =>
        /\ impedancia_multicriterio = ImpedanciaEspecificada(config, enlace)
        /\ (enlace = EnlaceEjemplo /\ config = ConfigDefecto)
              => impedancia_multicriterio = Rac(44, 10)

C9_Witness ==
    /\ enlace = EnlaceEjemplo /\ config = ConfigDefecto
    /\ impedancia_multicriterio = Rac(22, 5)

\* C10: a segment of length 0 has impedance 0 under the network-loader
\* weighting and under the route-search weighting, whatever its other
\* attributes are.
C10_LongitudCero ==
    enlace /= SinFuncion /\ enlace["longitud"] = 0 =>
        /\ impedancia_multicriterio /= SinCalcular => impedancia_multicriterio = Ent(0)
        /\ impedancia_segmento /= SinCalcular => impedancia_segmento = Ent(0)

C10_Witness ==
    /\ enlace /= SinFuncion /\ enlace["longitud"] = 0
    /\ SerieGet(enlace, "tipo_infraestructura", 3) = 4
    /\ SerieGet(enlace, "pendiente", 0) /= 0
    /\ SerieGet(enlace, "velocidad_vehicular", 30) = 50
    /\ impedancia_multicriterio = Ent(0)
    /\ impedancia_segmento = Ent(0)

\* the infrastructure code of the row is missing or is none of 1..4
TipoNoEnumerado(e) ==
    "tipo_infraestructura" \notin DOMAIN e \/ e["tipo_infraestructura"] \notin 1..4

\* C11: a segment with length > 0 and a traffic volume >= 0, at a bicycle
\* speed > 0, has an impedance > 0 under the weighting of the network loader
\* and under that of the route search, whatever its infrastructure code and
\* slope are.
C11_ImpedanciaPositiva ==
    (/\ enlace /= SinFuncion
     /\ enlace["longitud"] > 0
     /\ SerieGet(enlace, "volumen_vehicular", 0) >= 0
     /\ RPositivo(config.velocidad_promedio_bicicleta)
     /\ RPositivo(config_ruteo.velocidad_bicicleta))
      => /\ impedancia_multicriterio /= SinCalcular => RPositivo(impedancia_multicriterio)
         /\ impedancia_segmento /= SinCalcular => RPositivo(impedancia_segmento)

C11_Witness ==
    /\ enlace /= SinFuncion /\ enlace["longitud"] > 0
    /\ SerieGet(enlace, "tipo_infraestructura", 3) = 1
    /\ SerieGet(enlace, "pendiente", 0) < 0
    /\ impedancia_multicriterio /= SinCalcular /\ RPositivo(impedancia_multicriterio)
    /\ impedancia_segmento /= SinCalcular /\ RPositivo(impedancia_segmento)

\* C12: in the safety lookup of the network loader (helper_functions.py and
\* process_gtfs.py) an infrastructure code that is none of 1..4, and a missing
\* code, give the safety factor 0.6.
C12_FactorPorDefecto ==
    (enlace /= SinFuncion /\ TipoNoEnumerado(enlace))
      => /\ seguridad_multicriterio /= SinCalcular
               => seguridad_multicriterio = Rac(6, 10)
         /\ seguridad_ciclista /= SinCalcular
               => seguridad_ciclista = Rac(6, 10)

C12_Witness ==
    /\ enlace /= SinFuncion
    /\ "tipo_infraestructura" \in DOMAIN enlace /\ enlace["tipo_infraestructura"] = 7
    /\ seguridad_multicriterio = Rac(6, 10)
    /\ seguridad_ciclista = Rac(6, 10)

\* the row with its infrastructure code set to tipo
ConTipo(e, tipo) ==
    [k \in DOMAIN e \cup {"tipo_infraestructura"} |->
        IF k = "tipo_infraestructura" THEN tipo ELSE e[k]]

\* C13 (as stated): a segment whose infrastructure code is missing or is none
\* of 1..4 has, under both weightings, the impedance of the same segment with
\* the code 4 ("none").
C13_TratadoComoNinguno ==
    (enlace /= SinFuncion /\ TipoNoEnumerado(enlace))
      => /\ impedancia_multicriterio /= SinCalcular
               => impedancia_multicriterio
                    = CalcularImpedanciaMulticriterio(config, ConTipo(enlace, 4))
         /\ impedancia_segmento /= SinCalcular
               => impedancia_segmento
                    = CalcularImpedanciaSegmento(config_ruteo, ConTipo(enlace, 4))

----------------------------------------------------------------------------
(* Claims on the route metrics. *)

\* the hops of a node sequence, in order
Saltos(r) == [i \in 1..(IF Len(r) = 0 THEN 0 ELSE Len(r) - 1) |-> <<r[i], r[i + 1]>>]

\* the node pairs of a list of segment details, in order
SaltosRegistrados(segs) ==
    [k \in 1..Len(segs) |-> <<segs[k].nodo_inicio, segs[k].nodo_fin>>]

\* C14: the percentage of safe infrastructure of a metrics record is 100 x
\* (recorded segments of code 1 or 2) / (recorded segments), is 0 when no
\* segment is recorded, and lies between 0 and 100.
C14_PorcentajeInfraSegura ==
    (pc_metricas = "ruteo_retornado" /\ "porcentaje_infra_segura" \in metricas.claves)
      => LET segs == metricas.segmentos
             seguros == Cardinality({k \in 1..Len(segs) :
                                       segs[k].tipo_infraestructura \in {1, 2}})
             pct == metricas.porcentaje_infra_segura
         IN /\ Len(segs) = 0 => pct = Ent(0)
            /\ Len(segs) > 0 => RMul(pct, Ent(Len(segs))) = Ent(100 * seguros)
            /\ RMenorIgual(Ent(0), pct) /\ RMenorIgual(pct, Ent(100))

C14_Witness ==
    /\ pc_metricas = "ruteo_retornado"
    /\ "porcentaje_infra_segura" \in metricas.claves
    /\ Len(metricas.segmentos) = 2
    /\ metricas.porcentaje_infra_segura = Ent(50)
    /\ metricas.segmentos[1].tipo_infraestructura = 2

\* the table holds a row joining u and v, in either direction
HayFila(par) ==
    \E i \in 1..Len(red_ciclovias) :
        {red_ciclovias[i]["A"], red_ciclovias[i]["B"]} = {par[1], par[2]}

\* the graph holds an edge joining u and v, in either direction
HayArista(par) ==
    <<par[1], par[2]>> \in DOMAIN grafo_ciclista
      \/ <<par[2], par[1]>> \in DOMAIN grafo_ciclista

\* C15 (as stated): the metrics record every hop of the route that has a
\* segment in either direction, with its distance, and leave out only the
\* hops that have a segment in neither direction; in RuteadorCicloviasSPCCM
\* (segment table) and in SistemaOptimizacionCiclovias (graph).
C15_SaltoEnAmbosSentidos ==
    /\ (pc_metricas = "ruteo_retornado" /\ metricas.claves /= {})
          => /\ SaltosRegistrados(metricas.segmentos)
                  = SelectSeq(Saltos(ruta_metricas), HayFila)
             /\ metricas.distancia_total
                  = 1000 * Len(SelectSeq(Saltos(ruta_metricas), HayFila))
    /\ (pc_metricas = "optimizacion_retornado" /\ metricas.claves /= {})
          => /\ SaltosRegistrados(metricas.segmentos)
                  = SelectSeq(Saltos(ruta_metricas), HayArista)
             /\ metricas.distancia_total
                  = 1000 * Len(SelectSeq(Saltos(ruta_metricas), HayArista))

----------------------------------------------------------------------------
(* Claims on the corridor ranking. *)

\* the (route, segment) traversals of the input, in the order they are read
RecorridosEntrada == Recorridos(SegmentosDetalle(gdf_rutas), Len(gdf_rutas))

\* the traversals of the node pair arco
RecorridosDe(arco) ==
    {k \in 1..Len(RecorridosEntrada) : RecorridosEntrada[k]["arco"] = arco}

FrecuenciaDe(arco) == Cardinality(RecorridosDe(arco))

RECURSIVE SumaImpedancias(_)
SumaImpedancias(S) ==
    IF S = {} THEN 0
    ELSE LET k == CHOOSE i \in S : TRUE
         IN RecorridosEntrada[k]["impedancia"] + SumaImpedancias(S \ {k})

\* priority = frequency x accumulated impedance
PrioridadDe(arco) == FrecuenciaDe(arco) * SumaImpedancias(RecorridosDe(arco))

\* the first traversal of the node pair
PrimeraAparicion(arco) ==
    CHOOSE k \in RecorridosDe(arco) : \A j \in RecorridosDe(arco) : k <= j

\* the list of node pairs is ordered by priority non-increasing, equal
\* priorities by first occurrence
RankingCorrecto(arcos) ==
    \A i, j \in 1..Len(arcos) :
        i < j => \/ PrioridadDe(arcos[i]) > PrioridadDe(arcos[j])
                 \/ /\ PrioridadDe(arcos[i]) = PrioridadDe(arcos[j])
                    /\ PrimeraAparicion(arcos[i]) < PrimeraAparicion(arcos[j])

\* the node pairs of the rows of the corridor map, in row order
ArcosMapa ==
    [k \in 1..Len(corredores_mapa.filas) |->
        <<corredores_mapa.filas[k].nodo_inicio, corredores_mapa.filas[k].nodo_fin>>]

\* C19 (as stated): the corridor ranking, of the corridor map and of the
\* statistical analyser, is ordered by frequency x accumulated impedance
\* non-increasing, and entries of equal priority are in the order in which
\* their node pair first occurred in the input.
C19_RankingPorPrioridad ==
    /\ corredores_mapa.estado = "retornado" => RankingCorrecto(ArcosMapa)
    /\ corredores_prioritarios.estado = "retornado"
          => RankingCorrecto(corredores_prioritarios.corredores)

RECURSIVE SumaFrecuencias(_, _)
\* sum of the usage frequencies of the first n node pairs of the list
SumaFrecuencias(arcos, n) ==
    IF n = 0 THEN 0 ELSE SumaFrecuencias(arcos, n - 1) + FrecuenciaDe(arcos[n])

RECURSIVE SumaFrecuenciaUso(_, _)
\* sum of the column frecuencia_uso over the first n rows
SumaFrecuenciaUso(filas, n) ==
    IF n = 0 THEN 0 ELSE SumaFrecuenciaUso(filas, n - 1) + filas[n].frecuencia_uso

\* C20 (as stated): the usage frequencies of the corridor entries returned
\* sum to the number of (route, segment) traversals of the input, for the
\* corridor map and for the statistical analyser.
C20_FrecuenciasSumanRecorridos ==
    /\ corredores_mapa.estado = "retornado"
          => SumaFrecuenciaUso(corredores_mapa.filas, Len(corredores_mapa.filas))
               = Len(RecorridosEntrada)
    /\ corredores_prioritarios.estado = "retornado"
          => SumaFrecuencias(corredores_prioritarios.corredores,
                             Len(corredores_prioritarios.corredores))
               = Len(RecorridosEntrada)

----------------------------------------------------------------------------
(* Claims on the scenario comparison. *)

\* C16 (as stated): with an empty optimised batch or an empty baseline batch
\* no comparator returns a report; each one fails.
C16_LoteVacioFalla ==
    (Len(lote_optimizado) = 0 \/ Len(escenario_base) = 0)
      => /\ reporte_optimizacion.estado /= "retornado"
         /\ reporte_ruteo.estado /= "retornado"
         /\ metricas_globales.estado /= "retornado"

\* (mean_base - mean_opt) / mean_base x 100 over the two batches
ReduccionEspecificada ==
    LET mean_base == Media(Impedancias(escenario_base))
        mean_opt == Media(Impedancias(lote_optimizado))
    IN RMul(RDiv(RResta(mean_base, mean_opt), mean_base), Ent(100))

\* C17 (as stated): for non-empty batches with mean_base > 0 every report
\* holds impedance_reduction_pct = (mean_base - mean_opt) / mean_base x 100,
\* a negative value when mean_opt > mean_base.
C17_ReduccionSinRecorte ==
    (/\ Len(lote_optimizado) > 0
     /\ Len(escenario_base) > 0
     /\ RPositivo(Media(Impedancias(escenario_base))))
      => /\ reporte_optimizacion.estado = "retornado"
               => reporte_optimizacion.reduccion_impedancia = ReduccionEspecificada
         /\ reporte_ruteo.estado = "retornado"
               => reporte_ruteo.reduccion_impedancia = ReduccionEspecificada
         /\ metricas_globales.estado = "retornado"
               => metricas_globales.reduccion_impedancia = ReduccionEspecificada

\* C18 (as stated): comparing a non-empty batch with itself gives an
\* impedance reduction of 0 and a distance deviation of 0, also when the mean
\* impedance or the mean distance of the batch is 0.
C18_LotesIdenticos ==
    (Len(lote_optimizado) > 0 /\ escenario_base = lote_optimizado)
      => /\ reporte_optimizacion.estado /= "pendiente"
               => /\ reporte_optimizacion.estado = "retornado"
                  /\ reporte_optimizacion.reduccion_impedancia = Ent(0)
                  /\ reporte_optimizacion.porcentaje_desvio = Ent(0)
         /\ metricas_globales.estado /= "pendiente"
               => /\ metricas_globales.estado = "retornado"
                  /\ metricas_globales.reduccion_impedancia = Ent(0)
                  /\ metricas_globales.porcentaje_desvio = Ent(0)

----------------------------------------------------------------------------
(* Claims on the key of the corridor aggregation. *)

\* the unordered node pair of an arc
ParNoOrdenado(arco) == {arco[1], arco[2]}

\* the traversals of the node pair of arco, in either direction
RecorridosDelPar(arco) ==
    {k \in 1..Len(RecorridosEntrada) :
        ParNoOrdenado(RecorridosEntrada[k]["arco"]) = ParNoOrdenado(arco)}

\* C21 (as stated): the corridor aggregation is keyed by the unordered node
\* pair: every row of the corridor map counts and accumulates the traversals
\* of its node pair in both directions, and neither the corridor map nor the
\* list of the statistical analyser holds two entries for one node pair.
C21_ClaveNoOrdenada ==
    /\ corredores_mapa.estado = "retornado"
          => /\ \A k \in 1..Len(ArcosMapa) :
                  /\ corredores_mapa.filas[k].frecuencia_uso
                       = Cardinality(RecorridosDelPar(ArcosMapa[k]))
                  /\ corredores_mapa.filas[k].prioridad_inversion
                       = Cardinality(RecorridosDelPar(ArcosMapa[k]))
                           * SumaImpedancias(RecorridosDelPar(ArcosMapa[k]))
             /\ \A i, j \in 1..Len(ArcosMapa) :
                  ParNoOrdenado(ArcosMapa[i]) = ParNoOrdenado(ArcosMapa[j]) => i = j
    /\ corredores_prioritarios.estado = "retornado"
          => \A i, j \in 1..Len(corredores_prioritarios.corredores) :
                ParNoOrdenado(corredores_prioritarios.corredores[i])
                  = ParNoOrdenado(corredores_prioritarios.corredores[j]) => i = j

----------------------------------------------------------------------------
(* Claims on the multi-criterion route of RuteadorCicloviasSPCCM. *)

\* the row whose attributes the directed edge u -> v of the graph carries:
\* add_edge overwrites the attributes, so it is the last row (u, v)
FilaDeArista(tabla, u, v) ==
    LET S == {i \in 1..Len(tabla) : tabla[i]["A"] = u /\ tabla[i]["B"] = v}
    IN tabla[CHOOSE i \in S : \A j \in S : j <= i]

RECURSIVE ImpedanciaPrimaria(_, _, _, _)
\* total impedance of the hops i, i+1, ... of a path of the graph under the
\* time-and-attributes weighting of the segments it traverses
ImpedanciaPrimaria(cfgr, tabla, r, i) ==
    IF i >= Len(r) THEN Ent(0)
    ELSE RSuma(CalcularImpedanciaSegmento(cfgr, FilaDeArista(tabla, r[i], r[i + 1])),
               ImpedanciaPrimaria(cfgr, tabla, r, i + 1))

\* the graph of the call
GrafoSpccm == CrearGrafoDesdeRed(config_ruteo, red_ciclovias)

\* the candidate list holds a shortest path of each criterion, each path once
CandidatasPorCriterio ==
    /\ \A i, j \in 1..Len(rutas_candidatas) :
          rutas_candidatas[i] = rutas_candidatas[j] => i = j
    /\ \A k \in 1..Len(rutas_candidatas) :
          \E c \in 1..Len(CriteriosImpedancia) :
             rutas_candidatas[k]
               \in RutasMinimas(GrafoSpccm, par_od[1], par_od[2], CriteriosImpedancia[c])
    /\ \A c \in 1..Len(CriteriosImpedancia) :
          RutasMinimas(GrafoSpccm, par_od[1], par_od[2], CriteriosImpedancia[c]) /= {}
            => \E k \in 1..Len(rutas_candidatas) :
                  rutas_candidatas[k]
                    \in RutasMinimas(GrafoSpccm, par_od[1], par_od[2], CriteriosImpedancia[c])

\* the returned route is a candidate of least primary impedance
RetornaLaMinima ==
    /\ \E k \in 1..Len(rutas_candidatas) :
          rutas_candidatas[k] = resultado_spccm.ruta_optima
    /\ \A k \in 1..Len(rutas_candidatas) :
          RMenorIgual(
            ImpedanciaPrimaria(config_ruteo, red_ciclovias, resultado_spccm.ruta_optima, 1),
            ImpedanciaPrimaria(config_ruteo, red_ciclovias, rutas_candidatas[k], 1))

\* C22 (as stated): the candidate list holds the shortest path for each of
\* the four criteria with identical paths kept once, and the route returned
\* for the pair is a candidate whose total impedance under the primary
\* weighting is at most that of every other candidate.
C22_MinimaEntreCandidatas ==
    /\ pc_spccm \in {"candidatas", "retornado"} => CandidatasPorCriterio
    /\ resultado_spccm.estado = "retornado" => RetornaLaMinima

\* C27 (as stated): for every hop (u, v) of a candidate route, the row used
\* for the impedance and the metrics of the hop is the row whose attributes
\* define the directed edge u -> v of the graph the search traversed.
C27_FilaDeLaArista ==
    \A k \in 1..Len(rutas_evaluadas) :
       LET r == rutas_evaluadas[k].ruta
       IN /\ rutas_evaluadas[k].impedancia_total
               = ImpedanciaPrimaria(config_ruteo, red_ciclovias, r, 1)
          /\ \A i \in 1..(Len(r) - 1) :
                /\ ObtenerEnlaceEntreNodos(red_ciclovias, r[i], r[i + 1])
                     = FilaDeArista(red_ciclovias, r[i], r[i + 1])
                /\ rutas_evaluadas[k].metricas.segmentos[i].tipo_infraestructura
                     = FilaDeArista(red_ciclovias, r[i], r[i + 1])["tipo_infraestructura"]

----------------------------------------------------------------------------
(* Claim on the order of the heap. *)

\* position of a heap entry in the order of the heappush calls
PosicionEncolado(e) == CHOOSE k \in 1..Len(encolados) : encolados[k] = e

\* the entry the next heappop returns
ProximoExtraido == HeapPop(cola_prioridad)

\* C23 (as stated): among the queue entries of equal tentative distance the
\* one that was enqueued first is popped first, whatever the node identifiers.
C23_EmpatePorInsercion ==
    (pc = "bucle" /\ cola_prioridad /= {})
      => \A f \in cola_prioridad \ {ProximoExtraido} :
            f[1] = ProximoExtraido[1]
              => PosicionEncolado(ProximoExtraido) < PosicionEncolado(f)

----------------------------------------------------------------------------
(* Claim on the independence of the results of a batch. *)

RECURSIVE BucleAislado(_, _, _, _, _)
\* the while loop of a search that starts from nothing but the graph and the
\* two nodes: the dicts at the end of the loop, or the exception
BucleAislado(g, d, dist, pred, cola) ==
    IF cola = {} THEN [estado |-> "fin", dist |-> dist, pred |-> pred]
    ELSE LET e == CHOOSE x \in cola : \A y \in cola \ {x} :
                      x[1] < y[1] \/ (x[1] = y[1] /\ x[2] < y[2])
             m == {v \in Nodos(g) : /\ <<e[2], v>> \in DOMAIN g
                                    /\ Suma(e[1], g[<<e[2], v>>].weight) < dist[v]}
         IN IF e[2] = d THEN [estado |-> "fin", dist |-> dist, pred |-> pred]
            ELSE IF e[1] > dist[e[2]] THEN BucleAislado(g, d, dist, pred, cola \ {e})
            ELSE IF e[2] \notin Nodos(g) THEN [estado |-> "KeyError"]
            ELSE BucleAislado(g, d,
                   [v \in DOMAIN dist |->
                       IF v \in m THEN Suma(e[1], g[<<e[2], v>>].weight) ELSE dist[v]],
                   [v \in DOMAIN pred |-> IF v \in m THEN e[2] ELSE pred[v]],
                   (cola \ {e}) \cup {<<Suma(e[1], g[<<e[2], v>>].weight), v>> : v \in m})

RECURSIVE CaminoHaciaAtras(_, _)
\* the nodes from n back along the predecessors
CaminoHaciaAtras(pred, n) ==
    IF n = Ninguno THEN <<>>
    ELSE <<n>> \o CaminoHaciaAtras(pred, IF n \in DOMAIN pred THEN pred[n] ELSE Ninguno)

\* the result of the pair as a function of the graph and the two nodes alone
ResultadoAislado(g, par, o, d) ==
    LET fin == BucleAislado(g, d,
                            [n \in Nodos(g) \cup {o} |-> IF n = o THEN 0 ELSE Inf],
                            [n \in Nodos(g) |-> Ninguno],
                            {<<0, o>>})
        camino == CaminoHaciaAtras(fin.pred, d)
        ruta_optima == [i \in 1..Len(camino) |-> camino[Len(camino) + 1 - i]]
    IN [origen |-> par[1],
        destino |-> par[2],
        ruta_optima |-> ruta_optima,
        impedancia_total |-> IF d \in DOMAIN fin.dist THEN fin.dist[d] ELSE Inf,
        metricas |-> CalcularMetricasRuta(g, ruta_optima)]

\* every result of the list is the result of its pair alone
ResultadosAislados(res) ==
    \A k \in 1..Len(res) :
       res[k] = ResultadoAislado(grafo_ciclista,
                                 <<res[k].origen, res[k].destino>>,
                                 nodos_snapped[res[k].origen],
                                 nodos_snapped[res[k].destino])

\* C24: no step of a batch changes the graph, and every result of the batch
\* is the result a search and a metrics computation give for its pair from
\* the graph and the two nodes alone, whatever pairs came before it.
C24_ResultadoIndependiente ==
    /\ [](pc_ruteo = "inactivo"
            => ResultadosAislados(resultados) /\ ResultadosAislados(resultados_optimizacion))
    /\ [][grafo_ciclista' = grafo_ciclista]_vars

\* a batch ended in which a pair got its result after the search of the pair
\* before it had failed
C24_Witness ==
    /\ LoteTerminado
    /\ Len(consola) = 2
    /\ consola[1].tipo = "error"
    /\ consola[2].tipo = "ruta"
    /\ Len(resultados_optimizacion) = 1
    /\ resultados_optimizacion[1].origen = pares_od[2][1]

----------------------------------------------------------------------------
(* Claim on the termination of the search. *)

RECURSIVE AncestrosDe(_, _)
\* n and what the predecessors give from n in at most k steps
AncestrosDe(n, k) ==
    IF k = 0 \/ n = Ninguno THEN {n}
    ELSE {n} \cup AncestrosDe(Get(predecesores, n, Ninguno), k - 1)

\* from every node the predecessors lead to None: the map has no cycle
PredecesoresSinCiclo ==
    \A n \in DOMAIN predecesores :
       Ninguno \in AncestrosDe(n, Cardinality(DOMAIN predecesores))

\* no node was expanded twice
ExpandidosUnaVez ==
    \A i, j \in 1..Len(expandidos) : expandidos[i] = expandidos[j] => i = j

\* the call is over: it returned, or it raised
BusquedaTerminada == pc \in {"retornado", "error"}

\* C25: the search terminates: the call comes to its end, no node is expanded
\* twice and at every step the predecessor map has no cycle, zero-weight
\* edges and zero-weight cycles included.
C25_BusquedaTermina ==
    /\ <>BusquedaTerminada
    /\ [](ExpandidosUnaVez /\ PredecesoresSinCiclo)

\* a search returned a route of three nodes on a graph with a zero-weight
\* cycle through its origin
C25_Witness ==
    /\ pc = "retornado"
    /\ Len(retorno.ruta) = 3
    /\ \E u \in Nodos(grafo_ciclista) :
          /\ HasEdge(grafo_ciclista, origen, u) /\ HasEdge(grafo_ciclista, u, origen)
          /\ Peso(grafo_ciclista, origen, u) = 0 /\ Peso(grafo_ciclista, u, origen) = 0

----------------------------------------------------------------------------
(* Claim on the comparison of a batch that the batch loop produced. *)

\* the results of the batch loop as the dicts the comparator reads: the
\* metrics dict holds the keys of claves alone
ComoDicts(res) ==
    [k \in 1..Len(res) |->
        [impedancia_total |-> Ent(res[k].impedancia_total),
         metricas |-> [c \in res[k].metricas.claves |-> res[k].metricas[c]]]]

\* C26 (as stated): every result stored by the batch loop carries a metrics
\* record with a total distance and a finite total impedance, results for
\* pairs with origin = destination or an unreachable destination included,
\* and comparar_escenarios succeeds on every non-empty batch of the loop.
C26_ComparaLoteProducido ==
    (LoteTerminado /\ pc_ruteo = "inactivo" /\ Len(resultados_optimizacion) > 0)
      => /\ \A k \in 1..Len(resultados_optimizacion) :
               /\ "distancia_total" \in resultados_optimizacion[k].metricas.claves
               /\ resultados_optimizacion[k].impedancia_total < Inf
         /\ CompararEscenarios(ComoDicts(resultados_optimizacion),
                               ComoDicts(resultados_optimizacion)).estado = "retornado"

----------------------------------------------------------------------------
(* Claim on the segment records given to the corridor map. *)

\* C28 (as stated): every segment record of a result carries the fields the
\* corridor aggregator reads, so aggregating the routes mapped from results
\* with at least one segment raises no missing-field failure.
C28_SegmentosConCampos ==
    /\ \A i \in 1..Len(gdf_rutas) :
          \A k \in 1..Len(gdf_rutas[i]["segmentos_detalle"]) :
             {"arco", "impedancia", "tipo_infraestructura"}
               \subseteq DOMAIN gdf_rutas[i]["segmentos_detalle"][k]
    /\ corredores_mapa.estado /= "KeyError"

----------------------------------------------------------------------------
(* Claim on the pairs the batch loop skips. *)

\* C29 (as stated): a pair is skipped as unresolved only if its origin id or
\* its destination id is absent from the snapping map, whatever the mapped
\* node identifiers are.
C29_OmiteSoloAusentes ==
    pc_ruteo = "inactivo"
      => \A i \in 1..Len(consola) :
            consola[i].tipo = "advertencia" => ~Resuelto(consola[i].par)

----------------------------------------------------------------------------
(* Claim on the two impedance functions of the network loaders. *)

\* C30 (as stated): for every segment and every configuration
\* _calcular_impedancia_ciclista of SistemaMovilidadIntegrada returns the
\* value that _calcular_impedancia_multicriterio of
\* SistemaOptimizacionCiclovias returns, segments with traffic or with a
\* vehicle speed above 30 km/h included.
C30_ImpedanciasIguales ==
    (impedancia_multicriterio /= SinCalcular /\ impedancia_ciclista /= SinCalcular)
      => impedancia_ciclista = impedancia_multicriterio

====
